---- MODULE Spec2Model ----
(***************************************************************************)
(* Model of the failure-tolerant execution framework of the voice agent    *)
(* (failure_tolerance.py): ErrorClassifier, RetryStrategy and              *)
(* FailureTolerantExecutor with its per-service circuit breakers.          *)
(*                                                                         *)
(* execute() is a coroutine: between two awaits its code runs atomically   *)
(* on the event loop, so every action below is one such atomic segment,    *)
(* and several execute() calls may be suspended at the same time.          *)
(*                                                                         *)
(* Units: the clock `now` counts whole seconds (time.time()); retry delays *)
(* are kept in milliseconds and, after the jitter factor (in permille) has *)
(* been applied, in microseconds, so that no rounding takes place.         *)
(***************************************************************************)
EXTENDS Integers, FiniteSets, Sequences, TLC

(***************************************************************************)
(* Bounds of the model.                                                    *)
(***************************************************************************)
NumCalls == 2
MaxFailureCount == 7
MaxSuccessCount == 1
MaxElapsed == 61
MaxProbeAttempt == 8

CallIds == 1..NumCalls
Services == {"openai_llm", "cartesia_tts"}

(***************************************************************************)
(* Enumerations.                                                           *)
(***************************************************************************)
ErrorCategory ==
    {"transient", "permanent", "rate_limit", "timeout", "network",
     "authentication", "quota_exceeded", "service_unavailable", "invalid_input"}

EscalationLevel ==
    {"retry", "retry_with_backoff", "fallback_service", "graceful_degradation",
     "human_transfer", "abort"}

None == "None"

(***************************************************************************)
(* RetryConfig.  Delays are in milliseconds.                               *)
(***************************************************************************)
DefaultMaxAttempts == 3
DefaultInitialDelay == 1000
DefaultMaxDelay == 60000
DefaultExponentialBase == 2

DefaultRetryableCategories ==
    {"transient", "network", "timeout", "rate_limit", "service_unavailable"}

RetryConfig(max_attempts, initial_delay, max_delay, exponential_base, jitter, retryable) ==
    [max_attempts |-> max_attempts, initial_delay |-> initial_delay,
     max_delay |-> max_delay, exponential_base |-> exponential_base,
     jitter |-> jitter, retryable_categories |-> retryable]

DefaultRetryConfig ==
    RetryConfig(DefaultMaxAttempts, DefaultInitialDelay, DefaultMaxDelay,
                DefaultExponentialBase, TRUE, DefaultRetryableCategories)

(***************************************************************************)
(* ErrorClassifier.classify.  An error message is modelled by the set of   *)
(* the classifier's keywords that occur in it (after lower-casing); a      *)
(* keyword that is a substring of another keyword occurs wherever the      *)
(* longer one does.                                                        *)
(***************************************************************************)
KeywordSubstrings ==
    {<<"quota exceeded", "quota">>, <<"unauthorized", "auth">>,
     <<"service unavailable", "unavailable">>, <<"invalid key", "invalid">>}

Contains(msg, kw) ==
    \E p \in msg : p = kw \/ <<p, kw>> \in KeywordSubstrings

ContainsAny(msg, kws) == \E kw \in kws : Contains(msg, kw)

IsOpenAI(service_name) == service_name \in {"openai_llm"}
IsDeepgram(service_name) == service_name \in {"deepgram_stt"}
IsCartesiaOrElevenLabs(service_name) == service_name \in {"cartesia_tts", "elevenlabs_tts"}

classify(msg, service_name) ==
    IF ContainsAny(msg, {"connection", "network", "timeout", "unreachable", "dns"})
        THEN "network"
    ELSE IF Contains(msg, "timeout") \/ Contains(msg, "timed out")
        THEN "timeout"
    ELSE IF ContainsAny(msg, {"rate limit", "too many requests", "429", "quota"})
        THEN (IF Contains(msg, "quota") \/ Contains(msg, "quota exceeded")
                 THEN "quota_exceeded" ELSE "rate_limit")
    ELSE IF ContainsAny(msg, {"auth", "unauthorized", "401", "403", "invalid key", "api key"})
        THEN "authentication"
    ELSE IF ContainsAny(msg, {"503", "service unavailable", "unavailable", "down", "maintenance"})
        THEN "service_unavailable"
    ELSE IF ContainsAny(msg, {"invalid", "bad request", "400", "malformed", "validation"})
        THEN "invalid_input"
    ELSE IF IsOpenAI(service_name) /\ Contains(msg, "429")
        THEN "rate_limit"
    ELSE IF IsOpenAI(service_name) /\ (Contains(msg, "401") \/ Contains(msg, "403"))
        THEN "authentication"
    ELSE IF IsOpenAI(service_name)
            /\ (Contains(msg, "500") \/ Contains(msg, "502") \/ Contains(msg, "503"))
        THEN "service_unavailable"
    ELSE IF IsDeepgram(service_name) /\ Contains(msg, "429")
        THEN "rate_limit"
    ELSE IF IsDeepgram(service_name) /\ Contains(msg, "401")
        THEN "authentication"
    ELSE IF IsCartesiaOrElevenLabs(service_name) /\ Contains(msg, "429")
        THEN "rate_limit"
    ELSE IF IsCartesiaOrElevenLabs(service_name) /\ Contains(msg, "401")
        THEN "authentication"
    ELSE "transient"

(***************************************************************************)
(* RetryStrategy.                                                          *)
(***************************************************************************)
RECURSIVE Pow(_, _)
Pow(b, e) == IF e = 0 THEN 1 ELSE b * Pow(b, e - 1)

Min(a, b) == IF a < b THEN a ELSE b

\* random.random() is in [0, 1), so the jitter factor 0.5 + random.random()
\* is in [0.5, 1.5); the samples are in permille.
JitterFactors == {500, 750, 1000, 1250, 1499}
NoJitter == 1000

\* The delay in microseconds: milliseconds times a factor in permille.
calculate_delay(config, attempt, jitter_factor) ==
    IF attempt = 0
        THEN 0
        ELSE LET delay == Min(config.initial_delay
                                * Pow(config.exponential_base, attempt - 1),
                              config.max_delay)
             IN  IF config.jitter THEN delay * jitter_factor
                                  ELSE delay * NoJitter

\* should_retry without the test of the category.
should_retry_every_category(config, category, attempt) ==
    attempt < config.max_attempts

\* should_retry with `>` for `>=`.
should_retry_off_by_one(config, category, attempt) ==
    IF attempt > config.max_attempts
        THEN FALSE
        ELSE category \in config.retryable_categories

should_retry(config, category, attempt) ==
    IF attempt >= config.max_attempts
        THEN FALSE
        ELSE category \in config.retryable_categories

(***************************************************************************)
(* Circuit breakers: FailureTolerantExecutor.circuit_breakers is a dict    *)
(* from service name to breaker, here a function whose domain is the set   *)
(* of the services that have an entry.                                     *)
(***************************************************************************)
CooldownSeconds == 60
FailureThreshold == 5

NewBreaker ==
    [state |-> "closed", success_count |-> 0, failure_count |-> 0, last_failure |-> 0]

\* The cooldown test with `>=` for `>`.
CooldownElapsed_at(breaker, t) == t - breaker.last_failure >= CooldownSeconds

CooldownElapsed(breaker, t) == t - breaker.last_failure > CooldownSeconds

\* _is_circuit_open without its `return True`.
is_circuit_open_falls_through(breakers, service_name, t) ==
    IF service_name \notin DOMAIN breakers
        THEN [open |-> FALSE, breakers |-> breakers]
    ELSE IF breakers[service_name].state = "open"
                /\ CooldownElapsed(breakers[service_name], t)
        THEN [open |-> FALSE,
              breakers |-> [breakers EXCEPT ![service_name].state = "half-open"]]
    ELSE [open |-> FALSE, breakers |-> breakers]

\* Returns the boolean the method returns and the breakers as it leaves them.
is_circuit_open(breakers, service_name, t) ==
    IF service_name \notin DOMAIN breakers
        THEN [open |-> FALSE, breakers |-> breakers]
    ELSE IF breakers[service_name].state = "open"
        THEN IF CooldownElapsed(breakers[service_name], t)
                THEN [open |-> FALSE,
                      breakers |-> [breakers EXCEPT ![service_name].state = "half-open"]]
                ELSE [open |-> TRUE, breakers |-> breakers]
    ELSE [open |-> FALSE, breakers |-> breakers]

\* `if service_name not in self.circuit_breakers: ... = {...}`
EnsureBreaker(breakers, service_name) ==
    IF service_name \notin DOMAIN breakers
        THEN [x \in DOMAIN breakers \cup {service_name} |->
                 IF x = service_name THEN NewBreaker ELSE breakers[x]]
        ELSE breakers

\* _record_success that closes the breaker without resetting failure_count.
record_success_keeps_count(breakers, service_name) ==
    LET created == EnsureBreaker(breakers, service_name)
        counted == [created EXCEPT ![service_name].success_count = @ + 1]
    IN  IF counted[service_name].state = "half-open"
            THEN [counted EXCEPT ![service_name].state = "closed"]
            ELSE counted

record_success(breakers, service_name) ==
    LET created == EnsureBreaker(breakers, service_name)
        counted == [created EXCEPT ![service_name].success_count = @ + 1]
    IN  IF counted[service_name].state = "half-open"
            THEN [counted EXCEPT ![service_name].state = "closed",
                                 ![service_name].failure_count = 0]
            ELSE counted

\* _record_failure without `breaker['last_failure'] = time.time()`.
record_failure_keeps_time(breakers, service_name, t) ==
    LET created == EnsureBreaker(breakers, service_name)
        counted == [created EXCEPT ![service_name].failure_count = @ + 1]
    IN  IF counted[service_name].failure_count >= FailureThreshold
            THEN [counted EXCEPT ![service_name].state = "open"]
            ELSE counted

\* _record_failure opening the breaker only above 5 failures.
record_failure_opens_above(breakers, service_name, t) ==
    LET created == EnsureBreaker(breakers, service_name)
        counted == [created EXCEPT ![service_name].failure_count = @ + 1,
                                   ![service_name].last_failure = t]
    IN  IF counted[service_name].failure_count > FailureThreshold
            THEN [counted EXCEPT ![service_name].state = "open"]
            ELSE counted

record_failure(breakers, service_name, t) ==
    LET created == EnsureBreaker(breakers, service_name)
        counted == [created EXCEPT ![service_name].failure_count = @ + 1,
                                   ![service_name].last_failure = t]
    IN  IF counted[service_name].failure_count >= FailureThreshold
            THEN [counted EXCEPT ![service_name].state = "open"]
            ELSE counted

(***************************************************************************)
(* Exceptions and ExecutionResult.  An exception is its type and its       *)
(* message; `value` tells which callable produced the returned value.      *)
(***************************************************************************)
Error(type, msg) == [type |-> type, msg |-> msg]
NoError == Error(None, {})
TimeoutError == Error("TimeoutError", {})
CircuitOpenError == Error("Exception", {"circuit breaker is open"})

ExecutionResult(success, value, error, category, attempts, escalated, escalation_level) ==
    [success |-> success, value |-> value, error |-> error, category |-> category,
     attempts |-> attempts, escalated |-> escalated,
     escalation_level |-> escalation_level]

ShortCircuitResult ==
    ExecutionResult(FALSE, None, CircuitOpenError, "service_unavailable", 0, FALSE, None)

SuccessResult(attempt) ==
    ExecutionResult(TRUE, "operation", NoError, None, attempt + 1, FALSE, None)

\* The fallback's result built like the primary's, without the escalation.
FallbackResult_not_escalated(config) ==
    ExecutionResult(TRUE, "fallback", NoError, None, config.max_attempts + 1,
                    FALSE, None)

FallbackResult(config) ==
    ExecutionResult(TRUE, "fallback", NoError, None, config.max_attempts + 1,
                    TRUE, "fallback_service")

FailedResult(config, last_error, last_category, escalation_level) ==
    ExecutionResult(FALSE, None, last_error, last_category, config.max_attempts,
                    TRUE, escalation_level)

\* The default rule retrying on rate_limit.
DefaultEscalation_rate_limit(last_category) ==
    IF last_category \in {"authentication", "invalid_input"} THEN "abort"
    ELSE IF last_category = "quota_exceeded" THEN "human_transfer"
    ELSE IF last_category = "rate_limit" THEN "retry_with_backoff"
    ELSE "abort"

\* The escalation level when no escalation_handler is supplied.
DefaultEscalation(last_category) ==
    IF last_category \in {"authentication", "invalid_input"} THEN "abort"
    ELSE IF last_category = "quota_exceeded" THEN "human_transfer"
    ELSE "abort"

(***************************************************************************)
(* EscalationManager (escalation.py): the degradation modes, the policy    *)
(* and the manager's methods as operators on the manager's attributes.     *)
(***************************************************************************)
DegradationMode ==
    {"full", "reduced_stt", "reduced_tts", "reduced_llm", "text_only", "minimal"}

FULL_FUNCTIONALITY == "full"

DefaultDegradationSequence ==
    <<"full", "reduced_tts", "reduced_llm", "reduced_stt", "text_only", "minimal">>

DefaultMaxRetriesBeforeEscalation == 3
DefaultHumanTransferThreshold == 5

EscalationPolicy(graceful_degradation, human_transfer, threshold) ==
    [max_retries_before_escalation |-> DefaultMaxRetriesBeforeEscalation,
     enable_graceful_degradation |-> graceful_degradation,
     enable_human_transfer |-> human_transfer,
     human_transfer_threshold |-> threshold,
     degradation_sequence |-> DefaultDegradationSequence]

DefaultEscalationPolicy == EscalationPolicy(TRUE, TRUE, DefaultHumanTransferThreshold)

\* EscalationManager.__init__
NewManager(policy) ==
    [policy |-> policy, current_mode |-> FULL_FUNCTIONALITY, failure_count |-> 0,
     service_failures |-> <<>>]

\* service_failures.get(service_name, 0)
ServiceFailures(m, service_name) ==
    IF service_name \in DOMAIN m.service_failures
    THEN m.service_failures[service_name] ELSE 0

CriticalServices == {"openai_llm", "deepgram_stt"}
CriticalFailureThreshold == 3

\* A human transfer only once the total exceeds the threshold.
should_escalate_to_human_above(m) ==
    IF ~m.policy.enable_human_transfer THEN FALSE
    ELSE IF m.failure_count > m.policy.human_transfer_threshold THEN TRUE
    ELSE \E s \in CriticalServices : ServiceFailures(m, s) >= CriticalFailureThreshold

\* A human transfer only on the call that brings the total to the threshold.
should_escalate_to_human_at_threshold(m) ==
    IF ~m.policy.enable_human_transfer THEN FALSE
    ELSE IF m.failure_count = m.policy.human_transfer_threshold THEN TRUE
    ELSE \E s \in CriticalServices : ServiceFailures(m, s) >= CriticalFailureThreshold

should_escalate_to_human(m) ==
    IF ~m.policy.enable_human_transfer THEN FALSE
    ELSE IF m.failure_count >= m.policy.human_transfer_threshold THEN TRUE
    ELSE \E s \in CriticalServices : ServiceFailures(m, s) >= CriticalFailureThreshold

ServiceDegradationThreshold == 2
TextOnlyThreshold == 4
MinimalThreshold == 6

\* _determine_degradation_mode with the TTS test before the LLM test.
determine_degradation_mode_tts_first(m) ==
    LET stt_failures == ServiceFailures(m, "deepgram_stt")
        tts_failures == ServiceFailures(m, "elevenlabs_tts")
                        + ServiceFailures(m, "cartesia_tts")
        llm_failures == ServiceFailures(m, "openai_llm")
    IN  IF tts_failures >= ServiceDegradationThreshold THEN "reduced_tts"
        ELSE IF llm_failures >= ServiceDegradationThreshold THEN "reduced_llm"
        ELSE IF stt_failures >= ServiceDegradationThreshold THEN "reduced_stt"
        ELSE IF m.failure_count >= TextOnlyThreshold THEN "text_only"
        ELSE IF m.failure_count >= MinimalThreshold THEN "minimal"
        ELSE m.current_mode

\* The branches in the order the code tests them: the text_only test
\* comes before the minimal test.
determine_degradation_mode(m) ==
    LET stt_failures == ServiceFailures(m, "deepgram_stt")
        tts_failures == ServiceFailures(m, "elevenlabs_tts")
                        + ServiceFailures(m, "cartesia_tts")
        llm_failures == ServiceFailures(m, "openai_llm")
    IN  IF llm_failures >= ServiceDegradationThreshold THEN "reduced_llm"
        ELSE IF tts_failures >= ServiceDegradationThreshold THEN "reduced_tts"
        ELSE IF stt_failures >= ServiceDegradationThreshold THEN "reduced_stt"
        ELSE IF m.failure_count >= TextOnlyThreshold THEN "text_only"
        ELSE IF m.failure_count >= MinimalThreshold THEN "minimal"
        ELSE m.current_mode

\* The text _notify_degradation() would say for a mode.
DegradationNotice(mode) == <<"degradation notice", mode>>

\* _transition_to_mode calls the coroutine function _notify_degradation
\* without awaiting or scheduling the coroutine object it returns: the
\* object is dropped and its body, the session.say() call, never runs.
\* coroutines is the set of modes such an object was created for.
transition_to_mode(m, new_mode) ==
    IF new_mode = m.current_mode THEN [manager |-> m, coroutines |-> {}]
    ELSE [manager |-> [m EXCEPT !.current_mode = new_mode],
          coroutines |-> IF new_mode # FULL_FUNCTIONALITY THEN {new_mode} ELSE {}]

\* EscalationManager.record_failure: the manager after the call, the level
\* returned and the coroutine objects created and dropped.
manager_record_failure(m, service_name) ==
    LET counted == [m EXCEPT
                      !.failure_count = @ + 1,
                      !.service_failures =
                          [s \in DOMAIN @ \cup {service_name} |->
                              IF s = service_name THEN ServiceFailures(m, s) + 1
                              ELSE @[s]]]
        new_mode == determine_degradation_mode(counted)
        moved == transition_to_mode(counted, new_mode)
    IN  IF should_escalate_to_human(counted)
        THEN [manager |-> counted, level |-> "human_transfer", coroutines |-> {}]
        ELSE IF counted.policy.enable_graceful_degradation
                /\ new_mode # counted.current_mode
        THEN [manager |-> moved.manager, level |-> "graceful_degradation",
              coroutines |-> moved.coroutines]
        ELSE [manager |-> counted, level |-> "retry_with_backoff", coroutines |-> {}]

\* The record of record_failure() calls before the first one.
NoEscalation ==
    [calls |-> 0, service_name |-> None, returned |-> None,
     previous_mode |-> FULL_FUNCTIONALITY, unawaited |-> {}]

\* The texts _transfer_to_human() says.
TransferMessage == "transfer announcement"
ApologyMessage == "apology"

\* The handle_escalation() coroutine before its first call: pc is where it
\* is suspended ("say_transfer", "say_apology") or how it ended ("returned",
\* "raised"); returned holds the boolean it returned; calls, success, level,
\* said_before, transfer_failed and apology_failed tell what the call was
\* given, what record_failure() decided, the length of the session's
\* utterances on entry, and which say() raised (history).
NoHandling ==
    [pc |-> "idle", calls |-> 0, success |-> FALSE, level |-> None, returned |-> {},
     said_before |-> 0, transfer_failed |-> FALSE, apology_failed |-> FALSE]

\* handle_escalation() from its entry to its first suspension or its
\* return: the manager it leaves, what record_failure() returned and
\* dropped, where it stands, and what it says.
handle_escalation(m, success, service_name) ==
    IF success
    THEN [manager |-> m, level |-> None, coroutines |-> {}, recorded |-> FALSE,
          pc |-> "returned", returned |-> {TRUE}, says |-> <<>>]
    ELSE LET r == manager_record_failure(m, service_name)
         IN  IF r.level = "human_transfer"
             THEN [manager |-> r.manager, level |-> r.level, coroutines |-> r.coroutines,
                   recorded |-> TRUE, pc |-> "say_transfer", returned |-> {},
                   says |-> <<TransferMessage>>]
             ELSE [manager |-> r.manager, level |-> r.level, coroutines |-> r.coroutines,
                   recorded |-> TRUE, pc |-> "returned",
                   returned |-> {r.level = "graceful_degradation"}, says |-> <<>>]

\* _transfer_to_human() after its first say(): `except Exception` leads to
\* the apology.
transfer_after_say(raised) ==
    IF raised
    THEN [pc |-> "say_apology", returned |-> {}, says |-> <<ApologyMessage>>]
    ELSE [pc |-> "returned", returned |-> {TRUE}, says |-> <<>>]

\* _transfer_to_human() without the `except: pass` around the apology.
apology_after_say_propagates(raised) ==
    IF raised
    THEN [pc |-> "raised", returned |-> {}, says |-> <<>>]
    ELSE [pc |-> "returned", returned |-> {TRUE}, says |-> <<>>]

\* _transfer_to_human() after the apology's say(), and the return of
\* handle_escalation(): what the say() raised is swallowed.
apology_after_say(raised) ==
    [pc |-> "returned", returned |-> {TRUE}, says |-> <<>>]

(***************************************************************************)
(* UncertaintyHandler (escalation.py).  A partial result is None, an empty *)
(* string, a blank string or a text.                                       *)
(***************************************************************************)
NewUncertaintyHandler == [partial_results |-> <<>>, timeout_count |-> 0]

\* bool(result and len(str(result).strip()) > 0)
HasText(result) == result \notin {"None", "", " "}

is_partial_result_usable(result, operation_name) ==
    IF operation_name = "transcribe" THEN HasText(result)
    ELSE IF operation_name = "synthesize" THEN result # "None"
    ELSE IF operation_name = "generate" THEN HasText(result)
    ELSE FALSE

\* handle_partial_failure(): the handler after the call and the result.
handle_partial_failure(h, partial_result, error, operation_name) ==
    LET stored == [h EXCEPT !.partial_results =
                      Append(@, [operation |-> operation_name,
                                 result |-> partial_result, error |-> error.msg])]
    IN  [handler |-> stored,
         result |->
            IF is_partial_result_usable(partial_result, operation_name)
            THEN ExecutionResult(TRUE, partial_result, NoError, None, 0, TRUE,
                                 "graceful_degradation")
            ELSE ExecutionResult(FALSE, None, error, "transient", 0, FALSE, None)]

TimeoutNoticeThreshold == 3
TimeoutNotice == "timeout notice"

\* handle_timeout() counting every call.
handle_timeout_notice_from_second(h) ==
    LET counted == [h EXCEPT !.timeout_count = @ + 1]
    IN  [handler |-> counted,
         says |-> IF counted.timeout_count >= 2
                  THEN <<TimeoutNotice>> ELSE <<>>]

\* handle_timeout() from its entry to the say() or, without one, to its
\* return.
handle_timeout(h) ==
    LET counted == [h EXCEPT !.timeout_count = @ + 1]
    IN  [handler |-> counted,
         says |-> IF counted.timeout_count >= TimeoutNoticeThreshold
                  THEN <<TimeoutNotice>> ELSE <<>>]

\* The result handle_timeout() returns, also after `except Exception`.
TimeoutResult ==
    ExecutionResult(FALSE, None, TimeoutError, "timeout", 0, FALSE, None)

\* A handle_partial_failure() or handle_timeout() call: pc is "say" while
\* handle_timeout() is suspended in session.say(); op, result, said_before
\* and notice_failed tell which method was called, what it returned, the
\* length of the session's utterances on entry and whether its say() raised
\* (history).
NoUncertainCall ==
    [pc |-> "idle", op |-> None, result |-> {}, said_before |-> 0,
     notice_failed |-> FALSE]

(***************************************************************************)
(* SilenceStateMachine (silence_modeling.py).  Times and durations are in  *)
(* milliseconds; an Optional[float] that is None is NoTime.                *)
(***************************************************************************)
NoTime == -1

\* Python's truth value of an Optional[float]: None and 0.0 are false.
Truthy(t) == t # NoTime /\ t # 0

\* CulturalTimingRules.japanese() and .english(), without the TTS
\* parameters, which no timing decision reads.
JapaneseRules ==
    [language |-> "ja-JP", min_response_delay |-> 200, max_response_delay |-> 500,
     long_silence_threshold |-> 2000, backchannel_frequency |-> "high",
     backchannel_interval |-> 2000, allow_overlap |-> FALSE,
     min_interruption_duration |-> 800,
     silence_classification_thresholds |->
         [normal_pause |-> 300, thinking |-> 1000, end_of_speech |-> 2000,
          disengagement |-> 5000]]

EnglishRules ==
    [language |-> "en-US", min_response_delay |-> 50, max_response_delay |-> 150,
     long_silence_threshold |-> 1000, backchannel_frequency |-> "low",
     backchannel_interval |-> 3000, allow_overlap |-> TRUE,
     min_interruption_duration |-> 300,
     silence_classification_thresholds |->
         [normal_pause |-> 200, thinking |-> 500, end_of_speech |-> 1000,
          disengagement |-> 3000]]

\* A CulturalTimingRules built by a caller with the constructor: the
\* response window lies inside the end_of_speech bucket.
CallerRules ==
    [language |-> "custom", min_response_delay |-> 1000, max_response_delay |-> 1100,
     long_silence_threshold |-> 2000, backchannel_frequency |-> "medium",
     backchannel_interval |-> 2000, allow_overlap |-> FALSE,
     min_interruption_duration |-> 500,
     silence_classification_thresholds |->
         [normal_pause |-> 300, thinking |-> 1000, end_of_speech |-> 2000,
          disengagement |-> 5000]]

\* SilenceStateMachine.__init__
NewMachine(timing_rules) ==
    [rules |-> timing_rules, state |-> "none", silence_duration |-> 0,
     last_speech_time |-> NoTime, last_transcription_time |-> NoTime,
     asr_segments |-> <<>>]

\* The silence a thinking pause must exceed before a backchannel.
BackchannelMinSilence == 500

\* The silence at the normal_pause threshold still a normal pause.
SilenceBucket_pause_inclusive(thresholds, silence_duration) ==
    IF silence_duration <= thresholds.normal_pause THEN "normal_pause"
    ELSE IF silence_duration < thresholds.thinking THEN "thinking"
    ELSE IF silence_duration < thresholds.end_of_speech THEN "end_of_speech"
    ELSE "disengagement"

\* The silence at the end_of_speech threshold still end_of_speech.
SilenceBucket_end_inclusive(thresholds, silence_duration) ==
    IF silence_duration < thresholds.normal_pause THEN "normal_pause"
    ELSE IF silence_duration < thresholds.thinking THEN "thinking"
    ELSE IF silence_duration <= thresholds.end_of_speech THEN "end_of_speech"
    ELSE "disengagement"

\* The if/elif chain of update(): the first threshold the silence is
\* strictly below names the state.
SilenceBucket(thresholds, silence_duration) ==
    IF silence_duration < thresholds.normal_pause THEN "normal_pause"
    ELSE IF silence_duration < thresholds.thinking THEN "thinking"
    ELSE IF silence_duration < thresholds.end_of_speech THEN "end_of_speech"
    ELSE "disengagement"

UpdateResult(state, should_respond, should_backchannel) ==
    [state |-> state, should_respond |-> should_respond,
     should_backchannel |-> should_backchannel]

\* update() testing the response window in whichever bucket the silence
\* falls.
update_window_in_any_bucket(m, has_speech, transcription_time, current_time) ==
    IF has_speech
    THEN [machine |-> [m EXCEPT !.state = "speaking",
                                !.silence_duration = 0,
                                !.last_speech_time = current_time,
                                !.last_transcription_time =
                                    IF Truthy(transcription_time)
                                    THEN transcription_time ELSE @],
          result |-> UpdateResult("speaking", FALSE, FALSE)]
    ELSE
        LET silence_duration ==
                IF Truthy(m.last_speech_time) THEN current_time - m.last_speech_time
                ELSE IF Truthy(m.last_transcription_time)
                     THEN current_time - m.last_transcription_time
                ELSE 0
            thresholds == m.rules.silence_classification_thresholds
            state == SilenceBucket(thresholds, silence_duration)
            should_backchannel ==
                /\ state = "thinking"
                /\ m.rules.backchannel_frequency \in {"high", "medium"}
                /\ silence_duration > BackchannelMinSilence
            should_respond ==
                /\ m.rules.min_response_delay <= silence_duration
                /\ silence_duration <= m.rules.max_response_delay
        IN  [machine |-> [m EXCEPT !.state = state,
                                   !.silence_duration = silence_duration],
             result |-> UpdateResult(state, should_respond, should_backchannel)]

\* SilenceStateMachine.update at time current_time: the machine after the
\* call and the tuple returned.
update(m, has_speech, transcription_time, current_time) ==
    IF has_speech
    THEN [machine |-> [m EXCEPT !.state = "speaking",
                                !.silence_duration = 0,
                                !.last_speech_time = current_time,
                                !.last_transcription_time =
                                    IF Truthy(transcription_time)
                                    THEN transcription_time ELSE @],
          result |-> UpdateResult("speaking", FALSE, FALSE)]
    ELSE
        LET silence_duration ==
                IF Truthy(m.last_speech_time) THEN current_time - m.last_speech_time
                ELSE IF Truthy(m.last_transcription_time)
                     THEN current_time - m.last_transcription_time
                ELSE 0
            thresholds == m.rules.silence_classification_thresholds
            state == SilenceBucket(thresholds, silence_duration)
            should_backchannel ==
                /\ state = "thinking"
                /\ m.rules.backchannel_frequency \in {"high", "medium"}
                /\ silence_duration > BackchannelMinSilence
            should_respond ==
                /\ state = "end_of_speech"
                /\ m.rules.min_response_delay <= silence_duration
                /\ silence_duration <= m.rules.max_response_delay
        IN  [machine |-> [m EXCEPT !.state = state,
                                   !.silence_duration = silence_duration],
             result |-> UpdateResult(state, should_respond, should_backchannel)]

\* The rolling window of transcription segments.
AsrWindow == 5000

RECURSIVE Filter(_, _)
\* [x for x in seq if x[1] > cutoff]
Filter(seq, cutoff) ==
    IF seq = <<>> THEN <<>>
    ELSE IF Head(seq)[1] > cutoff THEN <<Head(seq)>> \o Filter(Tail(seq), cutoff)
    ELSE Filter(Tail(seq), cutoff)

\* SilenceStateMachine.update_transcription
update_transcription(m, text, timestamp) ==
    [m EXCEPT !.asr_segments = Filter(Append(@, <<timestamp, text>>),
                                      timestamp - AsrWindow),
              !.last_transcription_time = timestamp]

\* SilenceStateMachine.reset (asr_segments is kept)
machine_reset(m) ==
    [m EXCEPT !.state = "none", !.silence_duration = 0,
              !.last_speech_time = NoTime, !.last_transcription_time = NoTime]

\* A direct call of a SilenceStateMachine method, before the first one.
NoMachineCall ==
    [op |-> "none", has_speech |-> FALSE, result |-> UpdateResult("none", FALSE, FALSE),
     advances |-> 0]

(***************************************************************************)
(* SilenceModelingEngine and BackchannelManager (silence_modeling.py).     *)
(* The methods are operators on a world: the engine's attributes, its      *)
(* state machine, its statistics and the asyncio tasks it has created.     *)
(* A task is the position of its coroutine:                                *)
(*   scheduled   created, its coroutine not yet entered                    *)
(*   sleeping    suspended in asyncio.sleep() until wake                   *)
(*   saying      suspended in session.say()                                *)
(*   done        the coroutine returned                                    *)
(*   cancelled   ended by a CancelledError                                 *)
(* must_cancel is Task.cancel() requested and not yet delivered.           *)
(***************************************************************************)
NoTask == 0

NewTask(kind, timeout, text) ==
    [kind |-> kind, status |-> "scheduled", wake |-> NoTime, must_cancel |-> FALSE,
     timeout |-> timeout, text |-> text]

Finished(task) == task.status \in {"done", "cancelled"}

\* asyncio.create_task: the new task's handle is Len(w.tasks) + 1.
create_task(w, kind, timeout, text) ==
    [w EXCEPT !.tasks = Append(@, NewTask(kind, timeout, text))]

\* Task.cancel(): nothing on a finished task.
cancel(tasks, id) ==
    IF Finished(tasks[id]) THEN tasks ELSE [tasks EXCEPT ![id].must_cancel = TRUE]

MinBackchannelInterval == 2000

\* BackchannelManager._get_backchannels (the Japanese phrases romanised)
Backchannels(language) ==
    IF language = "ja-JP" THEN {"hai", "ee", "sou desu ne", "naruhodo", "aa"}
    ELSE {"I see", "Okay", "Right", "Got it", "Mm-hmm"}

\* BackchannelManager.__init__
NewBackchannelManager(language) ==
    [language |-> language, last_backchannel_time |-> 0,
     min_backchannel_interval |-> MinBackchannelInterval, backchannel_task |-> NoTask]

\* SilenceModelingEngine.__init__
NewEngine(timing_rules) ==
    [rules |-> timing_rules,
     backchannel_manager |-> NewBackchannelManager(timing_rules.language),
     monitoring_task |-> NoTask, is_monitoring |-> FALSE, response_blocked |-> FALSE,
     last_user_state |-> "listening", last_agent_state |-> "idle",
     agent_was_speaking |-> FALSE, interruption_start_time |-> NoTime,
     interruption_transcription_received |-> FALSE,
     false_interruption_check_task |-> NoTask]

\* The events of the statistics are kept without their timestamp and
\* language, which nothing reads.
NewStats ==
    [silence_events |-> <<>>, backchannels_triggered |-> 0, response_delays |-> <<>>,
     interruptions |-> <<>>, false_interruptions |-> 0]

NewWorld(timing_rules) ==
    [engine |-> NewEngine(timing_rules), machine |-> NewMachine(timing_rules),
     stats |-> NewStats, tasks |-> <<>>]

\* seq[-n:]
LastN(seq, n) ==
    IF Len(seq) <= n THEN seq ELSE SubSeq(seq, Len(seq) - n + 1, Len(seq))

SilenceEventsCap == 100
InterruptionsCap == 50
FalseInterruptionTimeout == 2000
CheckInterval == 100

\* trigger() without the test of the pending task.
trigger_ignores_pending(w, phrase, t) ==
    LET bm == w.engine.backchannel_manager
    IN  IF t - bm.last_backchannel_time < bm.min_backchannel_interval
        THEN [world |-> w, triggered |-> FALSE]
        ELSE [world |-> [create_task(w, "backchannel", 0, phrase) EXCEPT
                            !.engine.backchannel_manager.backchannel_task =
                                Len(w.tasks) + 1,
                            !.engine.backchannel_manager.last_backchannel_time = t],
              triggered |-> TRUE]

\* BackchannelManager.trigger at time t, saying the phrase random.choice
\* picked: the world after the call and the value returned.
trigger(w, phrase, t) ==
    LET bm == w.engine.backchannel_manager
    IN  IF t - bm.last_backchannel_time < bm.min_backchannel_interval
        THEN [world |-> w, triggered |-> FALSE]
        ELSE IF bm.backchannel_task # NoTask /\ ~Finished(w.tasks[bm.backchannel_task])
        THEN [world |-> w, triggered |-> FALSE]
        ELSE [world |-> [create_task(w, "backchannel", 0, phrase) EXCEPT
                            !.engine.backchannel_manager.backchannel_task =
                                Len(w.tasks) + 1,
                            !.engine.backchannel_manager.last_backchannel_time = t],
              triggered |-> TRUE]

\* The backchannel tasks that are not done.
PendingBackchannels(task_seq) ==
    {id \in DOMAIN task_seq :
        task_seq[id].kind = "backchannel" /\ ~Finished(task_seq[id])}

\* A direct call of trigger(), before the first one: the time of the call,
\* the boolean returned, last_backchannel_time and whether a backchannel
\* task was pending on entry, and the number of tasks the call created
\* (history).
NoTriggerCall ==
    [time |-> NoTime, returned |-> {}, last_before |-> 0, pending_before |-> FALSE,
     started |-> 0]

\* _log_silence_event without the trimming to the last 100.
log_silence_event_untrimmed(w, classification, duration) ==
    [w EXCEPT !.stats.silence_events =
        Append(@, [classification |-> classification, duration |-> duration])]

\* _log_silence_event
log_silence_event(w, classification, duration) ==
    [w EXCEPT !.stats.silence_events =
        LastN(Append(@, [classification |-> classification, duration |-> duration]),
              SilenceEventsCap)]

\* time.time() - _interruption_start_time if _interruption_start_time else 0.0
InterruptionDuration(w, t) ==
    IF Truthy(w.engine.interruption_start_time)
    THEN t - w.engine.interruption_start_time ELSE 0

\* _handle_interruption
handle_interruption(w, t) ==
    [create_task(w, "check", FalseInterruptionTimeout, "") EXCEPT
        !.engine.interruption_start_time = t,
        !.engine.interruption_transcription_received = FALSE,
        !.engine.agent_was_speaking = TRUE,
        !.engine.false_interruption_check_task = Len(w.tasks) + 1]

\* _handle_false_interruption: the event is appended and the history is
\* not trimmed.
handle_false_interruption(w, t) ==
    [w EXCEPT !.stats.false_interruptions = @ + 1,
              !.stats.interruptions =
                  Append(@, [type |-> "false_interruption",
                             duration |-> InterruptionDuration(w, t)])]

\* _handle_real_interruption
handle_real_interruption(w, t) ==
    [w EXCEPT !.stats.interruptions =
        LastN(Append(@, [type |-> "real_interruption",
                         duration |-> InterruptionDuration(w, t)]),
              InterruptionsCap)]

\* _reset_interruption_tracking
reset_interruption_tracking(w) ==
    LET check == w.engine.false_interruption_check_task
    IN  [w EXCEPT !.engine.interruption_start_time = NoTime,
                  !.engine.interruption_transcription_received = FALSE,
                  !.engine.agent_was_speaking = FALSE,
                  !.engine.false_interruption_check_task = NoTask,
                  !.tasks = IF check # NoTask THEN cancel(@, check) ELSE @]

\* The session's events, as the handlers read them.
Event(type, old_state, new_state, transcript) ==
    [type |-> type, old_state |-> old_state, new_state |-> new_state,
     transcript |-> transcript]

\* on_user_state_changed
on_user_state_changed(w, ev, t) ==
    LET seen == [w EXCEPT !.engine.last_user_state = ev.new_state]
    IN  IF ev.new_state = "listening" THEN create_task(seen, "silence_start", 0, "")
        ELSE IF ev.new_state = "speaking"
        THEN [seen EXCEPT !.machine = machine_reset(@),
                          !.engine.response_blocked = FALSE]
        ELSE seen

\* on_user_input_transcribed
on_user_input_transcribed(w, ev, t) ==
    IF ev.transcript # ""
    THEN [w EXCEPT !.machine = update_transcription(@, ev.transcript, t),
                   !.engine.interruption_transcription_received =
                       IF w.engine.interruption_start_time # NoTime THEN TRUE ELSE @]
    ELSE w

\* on_agent_state_changed
on_agent_state_changed(w, ev, t) ==
    LET seen == [w EXCEPT !.engine.last_agent_state = ev.new_state]
    IN  IF ev.old_state = "speaking" /\ ev.new_state = "listening"
        THEN handle_interruption(seen, t)
        ELSE IF /\ ev.old_state = "listening" /\ ev.new_state = "speaking"
                /\ seen.engine.interruption_start_time # NoTime
        THEN reset_interruption_tracking(
                 IF ~seen.engine.interruption_transcription_received
                 THEN handle_false_interruption(seen, t)
                 ELSE handle_real_interruption(seen, t))
        ELSE seen

\* on_false_interruption
on_false_interruption(w, ev, t) ==
    reset_interruption_tracking(handle_false_interruption(w, t))

\* One set of the handlers _setup_event_handlers registers.
handle(w, ev, t) ==
    IF ev.type = "user_state_changed" THEN on_user_state_changed(w, ev, t)
    ELSE IF ev.type = "user_input_transcribed" THEN on_user_input_transcribed(w, ev, t)
    ELSE IF ev.type = "agent_state_changed" THEN on_agent_state_changed(w, ev, t)
    ELSE on_false_interruption(w, ev, t)

RECURSIVE emit(_, _, _, _)
\* The session emits an event: every registered set of handlers runs, in
\* the order of registration.
emit(w, ev, handlers, t) ==
    IF handlers = 0 THEN w ELSE emit(handle(w, ev, t), ev, handlers - 1, t)

\* The coroutine of task id returned: a task whose cancel() was requested
\* during the coroutine's last step ends cancelled.
finish(w, id) ==
    [w EXCEPT !.tasks[id].status = IF w.tasks[id].must_cancel THEN "cancelled"
                                   ELSE "done",
              !.tasks[id].must_cancel = FALSE]

\* Task id suspends in asyncio.sleep(delay).
sleep(w, id, delay, t) ==
    [w EXCEPT !.tasks[id].status = "sleeping", !.tasks[id].wake = t + delay]

\* _check_false_interruption after its sleep
check_false_interruption(w, t) ==
    IF /\ w.engine.interruption_start_time # NoTime
       /\ ~w.engine.interruption_transcription_received
    THEN reset_interruption_tracking(handle_false_interruption(w, t))
    ELSE w

\* _handle_silence_start
handle_silence_start(w, t) ==
    [w EXCEPT !.machine = [machine_reset(@) EXCEPT !.last_speech_time = t]]

\* One pass of the body of _monitor_silence's loop, up to its sleep:
\* the world after it and whether the loop broke.
monitor_silence_body(w, phrase, t) ==
    LET has_speech == w.engine.last_user_state = "speaking"
        r == update(w.machine, has_speech, NoTime, t)
        updated == [w EXCEPT !.machine = r.machine]
        logged == IF r.result.state # "speaking"
                  THEN log_silence_event(updated, r.result.state,
                                         r.machine.silence_duration)
                  ELSE updated
        tried == trigger(logged, phrase, t)
        backchannelled ==
            IF ~r.result.should_backchannel THEN logged
            ELSE IF tried.triggered
            THEN [tried.world EXCEPT !.stats.backchannels_triggered = @ + 1]
            ELSE tried.world
        timed == IF r.result.should_respond /\ ~w.engine.response_blocked
                 THEN [backchannelled EXCEPT !.stats.response_delays =
                                                 Append(@, r.machine.silence_duration)]
                 ELSE backchannelled
    IN  [world |-> timed, broke |-> r.result.state = "disengagement"]

\* _monitor_silence from the head of its loop to its next suspension or
\* its return.
monitor_silence(w, id, phrase, t) ==
    IF ~w.engine.is_monitoring THEN finish(w, id)
    ELSE LET r == monitor_silence_body(w, phrase, t)
         IN  IF r.broke THEN finish(r.world, id)
             ELSE sleep(r.world, id, CheckInterval, t)

\* start()
start(w) ==
    IF w.engine.is_monitoring THEN w
    ELSE [create_task(w, "monitor", 0, "") EXCEPT
             !.engine.is_monitoring = TRUE,
             !.engine.monitoring_task = Len(w.tasks) + 1]

\* stop() from the await of the monitoring task on: the check task is
\* cancelled and awaited; awaiting a finished task does not suspend.
stop_after_monitoring(w) ==
    LET check == w.engine.false_interruption_check_task
    IN  IF check = NoTask
        THEN [world |-> w, pc |-> "returned", awaiting |-> NoTask]
        ELSE [world |-> [w EXCEPT !.tasks = cancel(@, check)],
              pc |-> IF Finished(w.tasks[check]) THEN "returned" ELSE "await_check",
              awaiting |-> IF Finished(w.tasks[check]) THEN NoTask ELSE check]

\* stop() from its entry to its first suspension or its return.
stop(w) ==
    LET stopped == [w EXCEPT !.engine.is_monitoring = FALSE]
        monitoring == w.engine.monitoring_task
    IN  IF monitoring = NoTask THEN stop_after_monitoring(stopped)
        ELSE IF Finished(w.tasks[monitoring]) THEN stop_after_monitoring(stopped)
        ELSE [world |-> [stopped EXCEPT !.tasks = cancel(@, monitoring)],
              pc |-> "await_monitor", awaiting |-> monitoring]

\* The stop() coroutine before it is called.
NoStopCall == [pc |-> "idle", awaiting |-> NoTask]

\* What has happened to the interruption the last speaking -> listening
\* transition began, before the first one.
NoInterruption ==
    [n |-> 0, transcribed |-> FALSE, false_recorded |-> 0, real_recorded |-> 0,
     check |-> NoTask, check_fired |-> FALSE, resumed |-> FALSE, explicit |-> FALSE]

(***************************************************************************)
(* State.                                                                  *)
(*   retry_config      the executor's RetryConfig                          *)
(*   circuit_breakers  the executor's breakers                             *)
(*   now               time.time()                                         *)
(*   calls             the execute() coroutines: where each is suspended,  *)
(*                     its arguments and locals, and what it returned      *)
(*   streak            per service, the number of execute() calls that     *)
(*                     ended without primary success since the last        *)
(*                     primary success (history)                           *)
(*   streak_closed     per service, whether the breaker was closed when    *)
(*                     the current streak began (history)                  *)
(*   probe             a direct call of a RetryStrategy method             *)
(*   scenario          what the callers do in this run: the coroutine      *)
(*                     slots and services they use, the exceptions their   *)
(*                     operations raise, and whether they pass a fallback  *)
(*                     and an escalation_handler                           *)
(*   instances         several executor objects side by side: for each     *)
(*                     the dict object its circuit_breakers attribute is   *)
(*                     bound to, the contents of those dict objects, and   *)
(*                     which executor and service the last execute() was   *)
(*                     for (history)                                       *)
(***************************************************************************)
VARIABLES retry_config, circuit_breakers, now, calls, streak, streak_closed, probe,
          scenario, instances

executor_vars ==
    <<retry_config, circuit_breakers, now, calls, streak, streak_closed, probe,
      scenario, instances>>

(***************************************************************************)
(* The state of the EscalationManager (escalation.py):                     *)
(*   manager           the manager's attributes: policy, current_mode,     *)
(*                     failure_count, service_failures                     *)
(*   said              the texts session.say() has been invoked with, in   *)
(*                     order                                               *)
(*   escalation        what the last record_failure() call was given and   *)
(*                     returned, the mode before it, and the coroutine     *)
(*                     objects the manager created without awaiting or     *)
(*                     scheduling them (history)                           *)
(*   handling          the handle_escalation() coroutine                   *)
(*   uncertainty       the UncertaintyHandler's attributes                 *)
(*   uncertain_call    the handle_partial_failure() or handle_timeout()    *)
(*                     call under way or last made                         *)
(***************************************************************************)
VARIABLES manager, said, escalation, handling, uncertainty, uncertain_call

escalation_vars == <<manager, said, escalation, handling, uncertainty, uncertain_call>>

(***************************************************************************)
(* The state of the silence modelling (silence_modeling.py):               *)
(*   clock             time.time(), in milliseconds                        *)
(*   machine           the SilenceStateMachine's attributes                *)
(*   machine_call      the last direct call of a SilenceStateMachine       *)
(*                     method, what it returned, and how many times the    *)
(*                     clock has advanced between such calls (history)     *)
(***************************************************************************)
VARIABLES clock, machine, machine_call

silence_vars == <<clock, machine, machine_call>>

(***************************************************************************)
(* The state of the SilenceModelingEngine and of the session it listens to: *)
(*   engine            the engine's attributes, with those of its          *)
(*                     BackchannelManager (its state machine is machine)   *)
(*   stats             the engine's statistics                             *)
(*   tasks             the asyncio tasks the engine has created, by handle *)
(*   session           the agent's and the user's state as the session     *)
(*                     reports them, and the number of sets of handlers    *)
(*                     registered on the session                           *)
(*   stop_call         the stop() coroutine: where it is suspended         *)
(*   tracked           what has happened since the last speaking ->        *)
(*                     listening transition of the agent (history)         *)
(*   trigger_call      the last direct call of                             *)
(*                     BackchannelManager.trigger() (history)              *)
(*   conversation      what the callers and the session do in this run     *)
(***************************************************************************)
VARIABLES engine, stats, tasks, session, stop_call, tracked, trigger_call, conversation

engine_vars ==
    <<engine, stats, tasks, session, stop_call, tracked, trigger_call, conversation>>

\* Everything that is not the executor's.
outside_executor == <<instances, escalation_vars, silence_vars, engine_vars>>

vars == <<executor_vars, escalation_vars, silence_vars, engine_vars>>

\* The exceptions an operation raises in the model, one per outcome of the
\* executor that depends on the category.
OpErrors ==
    {Error("Exception", {}),
     Error("Exception", {"quota exceeded"}),
     Error("Exception", {"unauthorized"}),
     Error("Exception", {"rate limit"}),
     Error("Exception", {"malformed"}),
     TimeoutError}

\* The levels an escalation_handler returns in the model.
HandlerLevels == {"retry_with_backoff", "graceful_degradation", "human_transfer"}

\* time.time() when the executor is constructed; a breaker's last_failure is
\* 0 until its first failure.
StartTime == 1

\* The clock advances by steps around the cooldown.
TickSteps == {CooldownSeconds - 1, CooldownSeconds, CooldownSeconds + 1}

\* A configuration whose delay is 0, so that the loop does not sleep.
NoDelayRetryConfig ==
    RetryConfig(2, 0, DefaultMaxDelay, DefaultExponentialBase, FALSE,
                DefaultRetryableCategories)

\* The default configuration with one retry only.
TwoAttemptRetryConfig ==
    RetryConfig(2, DefaultInitialDelay, DefaultMaxDelay, DefaultExponentialBase, TRUE,
                DefaultRetryableCategories)

\* One caller at a time, with every argument and every exception.
SequentialScenario ==
    [slots |-> {1}, services |-> {"openai_llm"}, errors |-> OpErrors,
     fallbacks |-> BOOLEAN, handlers |-> BOOLEAN]

\* Overlapping callers of one service, without fallback or handler, whose
\* operations raise a retryable exception.
ConcurrentScenario ==
    [slots |-> CallIds, services |-> {"openai_llm"},
     errors |-> {Error("Exception", {})},
     fallbacks |-> {FALSE}, handlers |-> {FALSE}]

Scenarios ==
    {<<SequentialScenario, DefaultRetryConfig>>,
     <<SequentialScenario, NoDelayRetryConfig>>,
     <<ConcurrentScenario, TwoAttemptRetryConfig>>}

\* A coroutine slot: pc is where execute() is suspended ("operation",
\* "sleep", "fallback") or how it ended ("returned", "raised"); service_name,
\* fallback and escalation_handler (whether one was passed) are its arguments;
\* attempt, last_error and last_category its locals; result what it returned.
\* op_calls, fallback_calls and handler_return record the calls it made to
\* the caller's callables (history).
IdleCall ==
    [pc |-> "idle", service_name |-> None, fallback |-> FALSE,
     escalation_handler |-> FALSE, attempt |-> 0, last_error |-> NoError,
     last_category |-> None, result |-> {}, op_calls |-> 0, fallback_calls |-> 0,
     handler_return |-> None]

\* The frame of execute() on entry.
NewCall(service_name, fallback, escalation_handler) ==
    [IdleCall EXCEPT !.service_name = service_name,
                     !.fallback = fallback, !.escalation_handler = escalation_handler]

\* execute() returns: its frame is gone, the result and the history stay.
Return(call, result) ==
    [IdleCall EXCEPT !.pc = "returned", !.service_name = call.service_name,
                     !.result = {result}, !.op_calls = call.op_calls,
                     !.fallback_calls = call.fallback_calls,
                     !.handler_return = call.handler_return]

\* An exception leaves execute().
Raise(call) ==
    [IdleCall EXCEPT !.pc = "raised", !.service_name = call.service_name,
                     !.op_calls = call.op_calls,
                     !.fallback_calls = call.fallback_calls]

Ended(call) == call.pc \in {"idle", "returned", "raised"}

InFlight(service_name) ==
    {d \in CallIds : calls[d].service_name = service_name
                     /\ calls[d].pc \in {"operation", "sleep"}}

FailureCount(breakers, service_name) ==
    IF service_name \in DOMAIN breakers THEN breakers[service_name].failure_count ELSE 0

SuccessCount(breakers, service_name) ==
    IF service_name \in DOMAIN breakers THEN breakers[service_name].success_count ELSE 0

BreakerState(breakers, service_name) ==
    IF service_name \in DOMAIN breakers THEN breakers[service_name].state ELSE "absent"

\* Executor objects constructed side by side.
ExecutorIds == {1, 2}

\* FailureTolerantExecutor.__init__ evaluates `{}` for each instance: the
\* dict object the instance numbered e is given is its own.
AllocatedDict_class_attribute(e) == 1

AllocatedDict(e) == e

\* The executors after construction; no execute() yet.
NewInstances ==
    [executors |-> [e \in ExecutorIds |-> [circuit_breakers |-> AllocatedDict(e)]],
     dicts |-> [ref \in {AllocatedDict(e) : e \in ExecutorIds} |-> <<>>],
     last |-> [n |-> 0, executor |-> 0, service_name |-> None]]

\* self.circuit_breakers of an executor.
BreakersOf(inst, e) == inst.dicts[inst.executors[e].circuit_breakers]

NoProbe ==
    [pc |-> "none", config |-> DefaultRetryConfig, attempt |-> 0,
     category |-> None, jitter_factor |-> NoJitter, delay |-> 0, retry |-> FALSE,
     msg |-> {}, service_name |-> ""]

ExecInit ==
    /\ \E p \in Scenarios : scenario = p[1] /\ retry_config = p[2]
    /\ instances = NewInstances
    /\ circuit_breakers = <<>>
    /\ now = StartTime
    /\ calls = [c \in CallIds |-> IdleCall]
    /\ streak = [s \in Services |-> 0]
    /\ streak_closed = [s \in Services |-> TRUE]

UncertaintyUnused ==
    /\ uncertainty = NewUncertaintyHandler
    /\ uncertain_call = NoUncertainCall

\* The other components, constructed and not used.
ManagerUnused ==
    /\ manager = NewManager(DefaultEscalationPolicy)
    /\ said = <<>>
    /\ escalation = NoEscalation
    /\ handling = NoHandling
    /\ UncertaintyUnused

\* time.time() when a run of the silence modelling begins.
ClockStart == 10000

\* The callers and the session doing nothing.
NoConversation ==
    [rules |-> EnglishRules, user_states |-> {}, agent_states |-> {},
     transcripts |-> {}, explicit |-> FALSE, stops |-> FALSE, steps |-> {},
     elapsed |-> 0, starts |-> 0, tasks |-> 0, recorded |-> 0]

\* The session before any event, with no handler registered.
NewSession == [agent_state |-> "idle", user_state |-> "listening", handlers |-> 0]

EngineUnused ==
    /\ engine = NewEngine(EnglishRules)
    /\ stats = NewStats
    /\ tasks = <<>>
    /\ session = NewSession
    /\ stop_call = NoStopCall
    /\ tracked = NoInterruption
    /\ trigger_call = NoTriggerCall
    /\ conversation = NoConversation

SilenceUnused ==
    /\ clock = ClockStart
    /\ machine = NewMachine(EnglishRules)
    /\ machine_call = NoMachineCall
    /\ EngineUnused

Init == ExecInit /\ probe = NoProbe /\ ManagerUnused /\ SilenceUnused

(***************************************************************************)
(* execute(), lines 250-271: the breaker check and, unless the call is     *)
(* short-circuited, the first invocation of the operation.                 *)
(***************************************************************************)
Start(c, service_name, fallback, escalation_handler) ==
    /\ Ended(calls[c])
    /\ \A d \in scenario.slots : d < c => ~Ended(calls[d])
    /\ LET check == is_circuit_open(circuit_breakers, service_name, now)
           call == NewCall(service_name, fallback, escalation_handler)
       IN  /\ circuit_breakers' = check.breakers
           /\ IF check.open
                 THEN calls' = [calls EXCEPT ![c] = Return(call, ShortCircuitResult)]
                 ELSE /\ FailureCount(circuit_breakers, service_name)
                           + Cardinality(InFlight(service_name)) < MaxFailureCount
                      /\ calls' = [calls EXCEPT ![c] =
                                     [call EXCEPT !.pc = "operation", !.op_calls = 1]]
    /\ UNCHANGED <<retry_config, now, streak, streak_closed, probe, scenario, outside_executor>>

(***************************************************************************)
(* execute(), lines 273-287: the operation returned a value.               *)
(***************************************************************************)
OperationSucceeds(c) ==
    /\ calls[c].pc = "operation"
    /\ SuccessCount(circuit_breakers, calls[c].service_name) < MaxSuccessCount
    /\ circuit_breakers' = record_success(circuit_breakers, calls[c].service_name)
    /\ calls' = [calls EXCEPT ![c] = Return(@, SuccessResult(@.attempt))]
    /\ streak' = [streak EXCEPT ![calls[c].service_name] = 0]
    /\ UNCHANGED <<retry_config, now, streak_closed, probe, scenario, outside_executor>>

\* Lines 289-303: the category of the caught exception.
CategoryOf(error, service_name) ==
    IF error.type = "TimeoutError" THEN "timeout" ELSE classify(error.msg, service_name)

Caught(call, error) ==
    [call EXCEPT !.last_error = error,
                 !.last_category = CategoryOf(error, call.service_name)]

(***************************************************************************)
(* execute(), lines 289-313 when should_retry holds: the backoff, or the   *)
(* next attempt at once when the delay is 0.                               *)
(***************************************************************************)
OperationFailsRetry(c, error, jitter_factor) ==
    /\ calls[c].pc = "operation"
    /\ LET call == Caught(calls[c], error)
           delay == calculate_delay(retry_config, call.attempt + 1, jitter_factor)
       IN  /\ should_retry(retry_config, call.last_category, call.attempt + 1)
           /\ calls' = [calls EXCEPT ![c] =
                          IF delay > 0
                             THEN [call EXCEPT !.pc = "sleep"]
                             ELSE [call EXCEPT !.attempt = @ + 1, !.op_calls = @ + 1]]
    /\ UNCHANGED <<retry_config, circuit_breakers, now, streak, streak_closed, probe, scenario, outside_executor>>

\* asyncio.sleep(delay) is over: the next iteration of the loop.
SleepDone(c) ==
    /\ calls[c].pc = "sleep"
    /\ calls' = [calls EXCEPT ![c] =
                   [@ EXCEPT !.pc = "operation", !.attempt = @ + 1, !.op_calls = @ + 1]]
    /\ UNCHANGED <<retry_config, circuit_breakers, now, streak, streak_closed, probe, scenario, outside_executor>>

(***************************************************************************)
(* execute(), lines 346-369: the escalation level and the failed result.   *)
(* handler_level is what escalation_handler returns when there is one.     *)
(***************************************************************************)
Escalate(config, call, handler_level) ==
    IF call.escalation_handler
        THEN Return([call EXCEPT !.handler_return = handler_level],
                    FailedResult(config, call.last_error, call.last_category,
                                 handler_level))
        ELSE Return(call,
                    FailedResult(config, call.last_error, call.last_category,
                                 DefaultEscalation(call.last_category)))

\* Lines 329-333: the fallback is awaited when there is one.
AfterPrimaryFailure(config, call, handler_level) ==
    IF call.fallback
        THEN [call EXCEPT !.pc = "fallback", !.fallback_calls = @ + 1]
        ELSE Escalate(config, call, handler_level)

\* execute() without the `except` around the fallback.
AfterFallbackError_propagates(config, call, handler_level) == Raise(call)

\* Lines 343-344: the fallback's exception is logged.
AfterFallbackError(config, call, handler_level) ==
    Escalate(config, call, handler_level)

(***************************************************************************)
(* execute() recording the failure only when no fallback was passed.       *)
(***************************************************************************)
OperationFailsFinal_fallback_unrecorded(c, error, handler_level) ==
    /\ calls[c].pc = "operation"
    /\ LET call == Caught(calls[c], error)
           s == call.service_name
       IN  /\ ~should_retry(retry_config, call.last_category, call.attempt + 1)
           /\ circuit_breakers' =
                 IF call.fallback THEN circuit_breakers
                 ELSE record_failure(circuit_breakers, s, now)
           /\ calls' = [calls EXCEPT ![c] =
                          AfterPrimaryFailure(retry_config, call, handler_level)]
           /\ streak' = [streak EXCEPT ![s] = @ + 1]
           /\ streak_closed' =
                 [streak_closed EXCEPT ![s] =
                    IF streak[s] = 0
                       THEN BreakerState(circuit_breakers, s) \in {"absent", "closed"}
                       ELSE @]
    /\ UNCHANGED <<retry_config, now, probe, scenario, outside_executor>>

(***************************************************************************)
(* execute(), lines 289-333 when should_retry does not hold: the loop      *)
(* ends, the failure is recorded, then the fallback or the escalation.     *)
(***************************************************************************)
OperationFailsFinal(c, error, handler_level) ==
    /\ calls[c].pc = "operation"
    /\ LET call == Caught(calls[c], error)
           s == call.service_name
       IN  /\ ~should_retry(retry_config, call.last_category, call.attempt + 1)
           /\ circuit_breakers' = record_failure(circuit_breakers, s, now)
           /\ calls' = [calls EXCEPT ![c] =
                          AfterPrimaryFailure(retry_config, call, handler_level)]
           /\ streak' = [streak EXCEPT ![s] = @ + 1]
           /\ streak_closed' =
                 [streak_closed EXCEPT ![s] =
                    IF streak[s] = 0
                       THEN BreakerState(circuit_breakers, s) \in {"absent", "closed"}
                       ELSE @]
    /\ UNCHANGED <<retry_config, now, probe, scenario, outside_executor>>

\* Lines 333-342.
FallbackSucceeds(c) ==
    /\ calls[c].pc = "fallback"
    /\ calls' = [calls EXCEPT ![c] = Return(@, FallbackResult(retry_config))]
    /\ UNCHANGED <<retry_config, circuit_breakers, now, streak, streak_closed, probe, scenario, outside_executor>>

\* Lines 343-369.
FallbackFails(c, handler_level) ==
    /\ calls[c].pc = "fallback"
    /\ calls' = [calls EXCEPT ![c] = AfterFallbackError(retry_config, @, handler_level)]
    /\ UNCHANGED <<retry_config, circuit_breakers, now, streak, streak_closed, probe, scenario, outside_executor>>

\* Time passes.
Tick(d) ==
    /\ now + d <= StartTime + MaxElapsed
    /\ now' = now + d
    /\ UNCHANGED <<retry_config, circuit_breakers, calls, streak, streak_closed, probe,
                   scenario, outside_executor>>

Next ==
    \/ \E c \in scenario.slots, s \in scenario.services,
          fb \in scenario.fallbacks, eh \in scenario.handlers :
          Start(c, s, fb, eh)
    \/ \E c \in scenario.slots : OperationSucceeds(c)
    \/ \E c \in scenario.slots, e \in scenario.errors, j \in JitterFactors :
          OperationFailsRetry(c, e, j)
    \/ \E c \in scenario.slots : SleepDone(c)
    \/ \E c \in scenario.slots, e \in scenario.errors, l \in HandlerLevels :
          OperationFailsFinal(c, e, l)
    \/ \E c \in scenario.slots : FallbackSucceeds(c)
    \/ \E c \in scenario.slots, l \in HandlerLevels : FallbackFails(c, l)
    \/ \E d \in TickSteps : Tick(d)

Spec == Init /\ [][Next]_vars

TypeOK ==
    /\ now \in StartTime..(StartTime + MaxElapsed)
    /\ DOMAIN circuit_breakers \subseteq Services
    /\ \A c \in CallIds : calls[c].pc \in {"idle", "operation", "sleep", "fallback", "returned", "raised"}

(***************************************************************************)
(* Direct calls of the RetryStrategy methods, on inputs drawn by the       *)
(* initial state.                                                          *)
(***************************************************************************)
ProbeDelayConfigs ==
    {RetryConfig(DefaultMaxAttempts, i, m, b, j, DefaultRetryableCategories) :
        i \in {0, 500, DefaultInitialDelay}, m \in {1000, DefaultMaxDelay},
        b \in {1, DefaultExponentialBase, 3}, j \in BOOLEAN}

ProbeRetryConfigs ==
    {RetryConfig(n, DefaultInitialDelay, DefaultMaxDelay, DefaultExponentialBase,
                 TRUE, r) :
        n \in 1..DefaultMaxAttempts,
        r \in {DefaultRetryableCategories, {}, ErrorCategory}}

ProbeInit ==
    \/ \E cfg \in ProbeDelayConfigs, a \in 0..MaxProbeAttempt, j \in JitterFactors :
          probe = [NoProbe EXCEPT !.pc = "delay", !.config = cfg, !.attempt = a,
                                  !.jitter_factor = j]
    \/ \E cfg \in ProbeRetryConfigs, a \in 0..MaxProbeAttempt, cat \in ErrorCategory :
          probe = [NoProbe EXCEPT !.pc = "retry", !.config = cfg, !.attempt = a,
                                  !.category = cat]

RetryInit ==
    /\ scenario = SequentialScenario
    /\ retry_config = DefaultRetryConfig
    /\ circuit_breakers = <<>>
    /\ now = StartTime
    /\ calls = [c \in CallIds |-> IdleCall]
    /\ streak = [s \in Services |-> 0]
    /\ streak_closed = [s \in Services |-> TRUE]
    /\ ProbeInit
    /\ instances = NewInstances
    /\ ManagerUnused
    /\ SilenceUnused

ProbeCalculateDelay ==
    /\ probe.pc = "delay"
    /\ probe' = [probe EXCEPT !.pc = "delay_done",
                              !.delay = calculate_delay(probe.config, probe.attempt,
                                                        probe.jitter_factor)]
    /\ UNCHANGED <<retry_config, circuit_breakers, now, calls, streak, streak_closed,
                   scenario, outside_executor>>

ProbeShouldRetry ==
    /\ probe.pc = "retry"
    /\ probe' = [probe EXCEPT !.pc = "retry_done",
                              !.retry = should_retry(probe.config, probe.category,
                                                     probe.attempt)]
    /\ UNCHANGED <<retry_config, circuit_breakers, now, calls, streak, streak_closed,
                   scenario, outside_executor>>

RetryNext == ProbeCalculateDelay \/ ProbeShouldRetry

SpecRetry == RetryInit /\ [][RetryNext]_vars

(***************************************************************************)
(* Direct calls of ErrorClassifier.classify: the initial state draws the   *)
(* error message, as the set of the classifier's keywords that occur in    *)
(* it, and the service name.  "timed out", "500" and "502" are the words   *)
(* the tests of lines 114 and 141 look for besides the keyword lists.      *)
(***************************************************************************)
MaxKeywords == 2

ClassifierKeywords ==
    {"connection", "network", "timeout", "unreachable", "dns", "timed out",
     "rate limit", "too many requests", "429", "quota", "quota exceeded",
     "auth", "unauthorized", "401", "403", "invalid key", "api key",
     "503", "service unavailable", "unavailable", "down", "maintenance",
     "invalid", "bad request", "400", "malformed", "validation",
     "500", "502"}

\* The messages in which at most n of the keywords occur.
RECURSIVE MessagesUpTo(_)
MessagesUpTo(n) ==
    IF n = 0 THEN {{}}
    ELSE LET shorter == MessagesUpTo(n - 1)
         IN  shorter \cup {msg \cup {kw} : msg \in shorter, kw \in ClassifierKeywords}

ErrorMessages == MessagesUpTo(MaxKeywords)

ClassifiedServices ==
    {"openai_llm", "deepgram_stt", "cartesia_tts", "elevenlabs_tts", ""}

ClassifyInit ==
    /\ scenario = SequentialScenario
    /\ retry_config = DefaultRetryConfig
    /\ circuit_breakers = <<>>
    /\ now = StartTime
    /\ calls = [c \in CallIds |-> IdleCall]
    /\ streak = [s \in Services |-> 0]
    /\ streak_closed = [s \in Services |-> TRUE]
    /\ \E msg \in ErrorMessages, service_name \in ClassifiedServices :
          probe = [NoProbe EXCEPT !.pc = "classify", !.msg = msg,
                                  !.service_name = service_name]
    /\ instances = NewInstances
    /\ ManagerUnused
    /\ SilenceUnused

ProbeClassify ==
    /\ probe.pc = "classify"
    /\ probe' = [probe EXCEPT !.pc = "classify_done",
                              !.category = classify(probe.msg, probe.service_name)]
    /\ UNCHANGED <<retry_config, circuit_breakers, now, calls, streak, streak_closed,
                   scenario, outside_executor>>

ClassifyNext == ProbeClassify

SpecClassify == ClassifyInit /\ [][ClassifyNext]_vars

(***************************************************************************)
(* Several executors and services, one execute() at a time and each call   *)
(* taken whole: the breaker check, then the retry loop which ends with     *)
(* _record_success or, its attempts used up, with _record_failure.         *)
(***************************************************************************)
MaxExecutions == 7

IsolationInit ==
    /\ scenario = SequentialScenario
    /\ retry_config = DefaultRetryConfig
    /\ circuit_breakers = <<>>
    /\ now = StartTime
    /\ calls = [c \in CallIds |-> IdleCall]
    /\ streak = [s \in Services |-> 0]
    /\ streak_closed = [s \in Services |-> TRUE]
    /\ probe = NoProbe
    /\ instances = NewInstances
    /\ ManagerUnused
    /\ SilenceUnused

Execute(e, service_name, succeeds) ==
    /\ instances.last.n < MaxExecutions
    /\ LET ref == instances.executors[e].circuit_breakers
           check == is_circuit_open(instances.dicts[ref], service_name, now)
           after == IF check.open THEN check.breakers
                    ELSE IF succeeds THEN record_success(check.breakers, service_name)
                    ELSE record_failure(check.breakers, service_name, now)
       IN  instances' = [instances EXCEPT
                           !.dicts[ref] = after,
                           !.last = [n |-> @.n + 1, executor |-> e,
                                     service_name |-> service_name]]
    /\ UNCHANGED <<retry_config, circuit_breakers, now, calls, streak, streak_closed,
                   probe, scenario, escalation_vars, silence_vars, engine_vars>>

\* Time passes between two calls: a cooldown and a second.
IsolationTick(d) ==
    /\ now + d <= StartTime + MaxElapsed
    /\ now' = now + d
    /\ UNCHANGED <<retry_config, circuit_breakers, calls, streak, streak_closed, probe,
                   scenario, outside_executor>>

IsolationNext ==
    \/ \E e \in ExecutorIds, s \in Services, succeeds \in BOOLEAN : Execute(e, s, succeeds)
    \/ IsolationTick(CooldownSeconds + 1)

SpecIsolation == IsolationInit /\ [][IsolationNext]_vars

(***************************************************************************)
(* The EscalationManager under record_failure() calls: the initial state   *)
(* draws the policy, the callers draw the service of each failure.         *)
(***************************************************************************)
MaxManagerFailures == 7

ManagerServices ==
    {"openai_llm", "deepgram_stt", "elevenlabs_tts", "cartesia_tts", "agent_session"}

EscalationPolicies ==
    {EscalationPolicy(g, h, t) :
        g \in BOOLEAN, h \in BOOLEAN, t \in {2, DefaultHumanTransferThreshold}}

ExecutorUnused ==
    /\ scenario = SequentialScenario
    /\ retry_config = DefaultRetryConfig
    /\ circuit_breakers = <<>>
    /\ now = StartTime
    /\ calls = [c \in CallIds |-> IdleCall]
    /\ streak = [s \in Services |-> 0]
    /\ streak_closed = [s \in Services |-> TRUE]
    /\ probe = NoProbe
    /\ instances = NewInstances

EscalationInit ==
    /\ ExecutorUnused
    /\ SilenceUnused
    /\ \E policy \in EscalationPolicies : manager = NewManager(policy)
    /\ said = <<>>
    /\ escalation = NoEscalation
    /\ handling = NoHandling
    /\ UncertaintyUnused

\* A caller reports a failure of a service: one record_failure() call,
\* which is synchronous and so runs to its return in one step.
RecordFailure(service_name) ==
    /\ manager.failure_count < MaxManagerFailures
    /\ LET r == manager_record_failure(manager, service_name)
       IN  /\ manager' = r.manager
           /\ escalation' = [calls |-> escalation.calls + 1,
                             service_name |-> service_name,
                             returned |-> r.level,
                             previous_mode |-> manager.current_mode,
                             unawaited |-> escalation.unawaited \cup r.coroutines]
    /\ UNCHANGED <<said, handling, uncertainty, uncertain_call, executor_vars,
                   silence_vars, engine_vars>>

EscalationNext == \E s \in ManagerServices : RecordFailure(s)

SpecEscalation == EscalationInit /\ [][EscalationNext]_vars

\* The callers go on reporting failures; nothing else is scheduled.
FairSpecEscalation == SpecEscalation /\ WF_vars(EscalationNext)

(***************************************************************************)
(* The EscalationManager under handle_escalation() calls: the callers draw *)
(* the result's success and the service, the session whether a say()       *)
(* raises.                                                                 *)
(***************************************************************************)
MaxHandled == 3

\* A caller awaits handle_escalation() with a result and the service it
\* came from; one such call at a time.
HandleEscalation(success, service_name) ==
    /\ handling.pc \in {"idle", "returned", "raised"}
    /\ handling.calls < MaxHandled
    /\ manager.failure_count < MaxManagerFailures
    /\ LET r == handle_escalation(manager, success, service_name)
       IN  /\ manager' = r.manager
           /\ said' = said \o r.says
           /\ escalation' =
                 IF r.recorded
                 THEN [calls |-> escalation.calls + 1,
                       service_name |-> service_name,
                       returned |-> r.level,
                       previous_mode |-> manager.current_mode,
                       unawaited |-> escalation.unawaited \cup r.coroutines]
                 ELSE escalation
           /\ handling' = [pc |-> r.pc, calls |-> handling.calls + 1,
                           success |-> success, level |-> r.level,
                           returned |-> r.returned, said_before |-> Len(said),
                           transfer_failed |-> FALSE, apology_failed |-> FALSE]
    /\ UNCHANGED <<uncertainty, uncertain_call, executor_vars, silence_vars, engine_vars>>

\* The session.say() that handle_escalation() is suspended in returns or
\* raises an Exception.
SayEnds(raised) ==
    /\ handling.pc \in {"say_transfer", "say_apology"}
    /\ LET r == IF handling.pc = "say_transfer"
                THEN transfer_after_say(raised) ELSE apology_after_say(raised)
       IN  /\ said' = said \o r.says
           /\ handling' =
                 [handling EXCEPT
                    !.pc = r.pc, !.returned = r.returned,
                    !.transfer_failed =
                        IF handling.pc = "say_transfer" THEN raised ELSE @,
                    !.apology_failed =
                        IF handling.pc = "say_apology" THEN raised ELSE @]
    /\ UNCHANGED <<manager, escalation, uncertainty, uncertain_call, executor_vars,
                   silence_vars, engine_vars>>

HandlingNext ==
    \/ \E success \in BOOLEAN, s \in ManagerServices : HandleEscalation(success, s)
    \/ \E raised \in BOOLEAN : SayEnds(raised)

SpecHandling == EscalationInit /\ [][HandlingNext]_vars

(***************************************************************************)
(* The UncertaintyHandler under handle_partial_failure() and               *)
(* handle_timeout() calls, one at a time: the callers draw the partial     *)
(* result and the operation name, the session whether the say() raises.    *)
(***************************************************************************)
MaxPartialFailures == 3
MaxTimeouts == 4

PartialResults == {"None", " ", "text"}
OperationNames == {"transcribe", "synthesize", "generate", "lookup"}

\* The exception a partial failure is reported with.
PartialError == Error("Exception", {})

UncertaintyInit ==
    /\ ExecutorUnused
    /\ SilenceUnused
    /\ manager = NewManager(DefaultEscalationPolicy)
    /\ said = <<>>
    /\ escalation = NoEscalation
    /\ handling = NoHandling
    /\ UncertaintyUnused

UncertaintyFrame ==
    UNCHANGED <<manager, escalation, handling, executor_vars, silence_vars, engine_vars>>

\* handle_partial_failure() has no suspension.
HandlePartialFailure(partial_result, operation_name) ==
    /\ uncertain_call.pc # "say"
    /\ Len(uncertainty.partial_results) < MaxPartialFailures
    /\ LET r == handle_partial_failure(uncertainty, partial_result, PartialError,
                                       operation_name)
       IN  /\ uncertainty' = r.handler
           /\ uncertain_call' = [pc |-> "returned", op |-> "handle_partial_failure",
                                 result |-> {r.result}, said_before |-> Len(said),
                                 notice_failed |-> FALSE]
    /\ UNCHANGED said
    /\ UncertaintyFrame

\* handle_timeout() up to the say() or, without one, to its return.
HandleTimeout(operation_name) ==
    /\ uncertain_call.pc # "say"
    /\ uncertainty.timeout_count < MaxTimeouts
    /\ LET r == handle_timeout(uncertainty)
       IN  /\ uncertainty' = r.handler
           /\ said' = said \o r.says
           /\ uncertain_call' = [pc |-> IF r.says = <<>> THEN "returned" ELSE "say",
                                 op |-> "handle_timeout",
                                 result |-> IF r.says = <<>> THEN {TimeoutResult} ELSE {},
                                 said_before |-> Len(said),
                                 notice_failed |-> FALSE]
    /\ UncertaintyFrame

\* The say() of handle_timeout() returns or raises an Exception, which is
\* logged; handle_timeout() returns.
NoticeEnds(raised) ==
    /\ uncertain_call.pc = "say"
    /\ uncertain_call' = [uncertain_call EXCEPT !.pc = "returned",
                                                !.result = {TimeoutResult},
                                                !.notice_failed = raised]
    /\ UNCHANGED <<uncertainty, said>>
    /\ UncertaintyFrame

UncertaintyNext ==
    \/ \E r \in PartialResults, o \in OperationNames : HandlePartialFailure(r, o)
    \/ \E o \in OperationNames : HandleTimeout(o)
    \/ \E raised \in BOOLEAN : NoticeEnds(raised)

SpecUncertainty == UncertaintyInit /\ [][UncertaintyNext]_vars

(***************************************************************************)
(* Direct calls of the SilenceStateMachine methods, at the instants the    *)
(* clock is advanced to.                                                   *)
(***************************************************************************)
MaxAdvances == 2
MaxSegments == 1

\* The amounts the clock advances by: the thresholds of both rule sets and
\* durations between them.
SilenceSteps == {50, 200, 250, 300, 500, 600, 1000, 2000}

TimingRules == {EnglishRules, JapaneseRules, CallerRules}

Transcripts == {"hello"}

MachineInit ==
    /\ ExecutorUnused
    /\ ManagerUnused
    /\ clock = ClockStart
    /\ \E rules \in TimingRules : machine = NewMachine(rules)
    /\ machine_call = NoMachineCall
    /\ EngineUnused

MachineUpdate(has_speech, transcription_time) ==
    /\ LET r == update(machine, has_speech, transcription_time, clock)
       IN  /\ machine' = r.machine
           /\ machine_call' = [machine_call EXCEPT !.op = "update",
                                                   !.has_speech = has_speech,
                                                   !.result = r.result]
    /\ UNCHANGED <<clock, executor_vars, escalation_vars, engine_vars>>

MachineUpdateTranscription(text) ==
    /\ Len(machine.asr_segments) < MaxSegments
    /\ machine' = update_transcription(machine, text, clock)
    /\ machine_call' = [machine_call EXCEPT !.op = "update_transcription"]
    /\ UNCHANGED <<clock, executor_vars, escalation_vars, engine_vars>>

MachineReset ==
    /\ machine' = machine_reset(machine)
    /\ machine_call' = [machine_call EXCEPT !.op = "reset"]
    /\ UNCHANGED <<clock, executor_vars, escalation_vars, engine_vars>>

\* Time passes between two calls.
MachineAdvance(d) ==
    /\ machine_call.advances < MaxAdvances
    /\ clock' = clock + d
    /\ machine_call' = [machine_call EXCEPT !.op = "none", !.advances = @ + 1]
    /\ UNCHANGED <<machine, executor_vars, escalation_vars, engine_vars>>

MachineNext ==
    \/ \E has_speech \in BOOLEAN, t \in {NoTime, clock} : MachineUpdate(has_speech, t)
    \/ \E text \in Transcripts : MachineUpdateTranscription(text)
    \/ MachineReset
    \/ \E d \in SilenceSteps : MachineAdvance(d)

SpecMachine == MachineInit /\ [][MachineNext]_vars

(***************************************************************************)
(* The SilenceModelingEngine on an asyncio event loop: the callers' start() *)
(* and stop(), the session's events, the steps of the tasks the engine     *)
(* created, and the passing of time.  Each action is one run of a callback *)
(* or of a coroutine between two suspensions.                              *)
(***************************************************************************)
MaxTasks == 3
MaxRecorded == 2
MaxEngineElapsed == 2000

AgentStates == {"idle", "listening", "speaking"}
UserStates == {"listening", "speaking", "away"}

\* A conversation with interruptions of the agent.
InterruptionConversation ==
    [rules |-> EnglishRules, user_states |-> {}, agent_states |-> AgentStates,
     transcripts |-> {"", "hello"}, explicit |-> TRUE, stops |-> FALSE,
     steps |-> {FalseInterruptionTimeout}, elapsed |-> MaxEngineElapsed,
     starts |-> 1, tasks |-> MaxTasks, recorded |-> MaxRecorded]

\* A conversation in which the user falls silent and the agent listens.
SilenceConversation ==
    [rules |-> JapaneseRules, user_states |-> {"listening", "speaking"},
     agent_states |-> {}, transcripts |-> {}, explicit |-> FALSE, stops |-> TRUE,
     steps |-> {600}, elapsed |-> 600,
     starts |-> 1, tasks |-> MaxTasks, recorded |-> 0]

\* A long conversation in which the session reports false interruptions.
LongConversation ==
    [rules |-> EnglishRules, user_states |-> {}, agent_states |-> {},
     transcripts |-> {}, explicit |-> TRUE, stops |-> FALSE,
     steps |-> {}, elapsed |-> 0,
     starts |-> 1, tasks |-> 1, recorded |-> InterruptionsCap + MaxRecorded]

\* Callers of a BackchannelManager whose engine is not started.
BackchannelConversation ==
    [rules |-> JapaneseRules, user_states |-> {}, agent_states |-> {},
     transcripts |-> {}, explicit |-> FALSE, stops |-> FALSE,
     steps |-> {MinBackchannelInterval - 1000, MinBackchannelInterval},
     elapsed |-> 2 * MinBackchannelInterval,
     starts |-> 0, tasks |-> MaxTasks, recorded |-> 0]

\* A conversation in which the callers stop the engine and start it again.
RestartConversation ==
    [rules |-> EnglishRules, user_states |-> {},
     agent_states |-> {"listening", "speaking"},
     transcripts |-> {"hello"}, explicit |-> TRUE, stops |-> TRUE,
     steps |-> {}, elapsed |-> 0,
     starts |-> 2, tasks |-> MaxTasks, recorded |-> MaxRecorded]

Conversations ==
    {InterruptionConversation, SilenceConversation, LongConversation,
     RestartConversation}

World == [engine |-> engine, machine |-> machine, stats |-> stats, tasks |-> tasks]

Becomes(w) ==
    /\ engine' = w.engine
    /\ machine' = w.machine
    /\ stats' = w.stats
    /\ tasks' = w.tasks

NumReal(w) ==
    Cardinality({i \in DOMAIN w.stats.interruptions :
                    w.stats.interruptions[i].type = "real_interruption"})

\* The history of the tracked interruption after a step to world w.
Observed(w, transcribed, check_fired, resumed, explicit) ==
    IF tracked.n = 0 THEN tracked
    ELSE [tracked EXCEPT
            !.false_recorded = @ + w.stats.false_interruptions
                                 - stats.false_interruptions,
            !.real_recorded = @ + NumReal(w) - NumReal(World),
            !.transcribed = @ \/ transcribed,
            !.check_fired = @ \/ check_fired,
            !.resumed = @ \/ resumed,
            !.explicit = @ \/ explicit]

Unobserved(w) == Observed(w, FALSE, FALSE, FALSE, FALSE)

EngineInit ==
    /\ ExecutorUnused
    /\ ManagerUnused
    /\ clock = ClockStart
    /\ machine_call = NoMachineCall
    /\ \E c \in Conversations :
          /\ conversation = c
          /\ engine = NewEngine(c.rules)
          /\ machine = NewMachine(c.rules)
    /\ stats = NewStats
    /\ tasks = <<>>
    /\ session = NewSession
    /\ stop_call = NoStopCall
    /\ tracked = NoInterruption
    /\ trigger_call = NoTriggerCall

\* What no step of the engine, of its tasks or of the session touches.
EngineOutside ==
    UNCHANGED <<executor_vars, manager, escalation, handling, uncertainty,
                uncertain_call, machine_call, conversation>>

EngineFrame == EngineOutside /\ UNCHANGED trigger_call

\* A caller awaits start(), which has no suspension; a start() that finds
\* the engine monitoring returns at once.
StartCalled ==
    /\ engine.is_monitoring \/ session.handlers < conversation.starts
    /\ Len(start(World).tasks) <= conversation.tasks
    /\ Becomes(start(World))
    /\ session' = [session EXCEPT !.handlers = IF engine.is_monitoring THEN @ ELSE @ + 1]
    /\ tracked' = Unobserved(start(World))
    /\ UNCHANGED <<clock, said, stop_call>>
    /\ EngineFrame

\* A caller awaits stop(): up to its first suspension or its return.
StopCalled ==
    /\ conversation.stops
    /\ stop_call.pc \in {"idle", "returned"}
    /\ LET r == stop(World)
       IN  /\ Becomes(r.world)
           /\ stop_call' = [pc |-> r.pc, awaiting |-> r.awaiting]
           /\ tracked' = Unobserved(r.world)
    /\ UNCHANGED <<clock, said, session>>
    /\ EngineFrame

\* The task stop() awaits has finished: stop() goes on.
StopResumes ==
    /\ stop_call.pc \in {"await_monitor", "await_check"}
    /\ Finished(tasks[stop_call.awaiting])
    /\ LET r == IF stop_call.pc = "await_monitor" THEN stop_after_monitoring(World)
                ELSE [world |-> World, pc |-> "returned", awaiting |-> NoTask]
       IN  /\ Becomes(r.world)
           /\ stop_call' = [pc |-> r.pc, awaiting |-> r.awaiting]
           /\ tracked' = Unobserved(r.world)
    /\ UNCHANGED <<clock, said, session>>
    /\ EngineFrame

\* The session emits user_state_changed.
UserStateChanged(new_state) ==
    /\ new_state # session.user_state
    /\ LET w == emit(World, Event("user_state_changed", session.user_state,
                                  new_state, ""), session.handlers, clock)
       IN  /\ Len(w.tasks) <= conversation.tasks
           /\ Becomes(w)
           /\ tracked' = Unobserved(w)
    /\ session' = [session EXCEPT !.user_state = new_state]
    /\ UNCHANGED <<clock, said, stop_call>>
    /\ EngineFrame

\* The session emits user_input_transcribed.
UserInputTranscribed(transcript) ==
    /\ Len(machine.asr_segments) < MaxSegments
    /\ LET w == emit(World, Event("user_input_transcribed", "", "", transcript),
                     session.handlers, clock)
       IN  Becomes(w) /\ tracked' = Observed(w, transcript # "", FALSE, FALSE, FALSE)
    /\ UNCHANGED <<clock, said, session, stop_call>>
    /\ EngineFrame

\* The session emits agent_state_changed.
AgentStateChanged(new_state) ==
    /\ new_state # session.agent_state
    /\ LET interrupts == session.agent_state = "speaking" /\ new_state = "listening"
           resumes == session.agent_state = "listening" /\ new_state = "speaking"
           w == emit(World, Event("agent_state_changed", session.agent_state,
                                  new_state, ""), session.handlers, clock)
       IN  /\ Len(w.tasks) <= conversation.tasks
           /\ Len(w.stats.interruptions) <= conversation.recorded
           /\ Becomes(w)
           /\ tracked' = IF interrupts /\ session.handlers > 0
                         THEN [NoInterruption EXCEPT
                                  !.n = tracked.n + 1,
                                  !.check = w.engine.false_interruption_check_task]
                         ELSE Observed(w, FALSE, FALSE, resumes, FALSE)
    /\ session' = [session EXCEPT !.agent_state = new_state]
    /\ UNCHANGED <<clock, said, stop_call>>
    /\ EngineFrame

\* The session emits agent_false_interruption.
AgentFalseInterruption ==
    /\ conversation.explicit
    /\ LET w == emit(World, Event("agent_false_interruption", "", "", ""),
                     session.handlers, clock)
       IN  /\ Len(w.stats.interruptions) <= conversation.recorded
           /\ Becomes(w)
           /\ tracked' = Observed(w, FALSE, FALSE, FALSE, TRUE)
    /\ UNCHANGED <<clock, said, session, stop_call>>
    /\ EngineFrame

\* The event loop enters the coroutine of a task that was created and
\* not cancelled since.
RunScheduled(id, phrase) ==
    /\ tasks[id].status = "scheduled"
    /\ ~tasks[id].must_cancel
    /\ LET kind == tasks[id].kind
           w == IF kind = "monitor" THEN monitor_silence(World, id, phrase, clock)
                ELSE IF kind = "check"
                THEN sleep(World, id, tasks[id].timeout, clock)
                ELSE IF kind = "silence_start"
                THEN finish(handle_silence_start(World, clock), id)
                ELSE [World EXCEPT !.tasks[id].status = "saying"]
       IN  /\ Len(w.tasks) <= conversation.tasks
           /\ Becomes(w)
           /\ tracked' = Unobserved(w)
           /\ said' = IF kind = "backchannel" THEN Append(said, tasks[id].text)
                      ELSE said
    /\ UNCHANGED <<clock, session, stop_call>>
    /\ EngineFrame

\* The sleep of a task is over: the monitoring loop goes round, the
\* deferred check runs.
SleepElapses(id, phrase) ==
    /\ tasks[id].status = "sleeping"
    /\ ~tasks[id].must_cancel
    /\ clock >= tasks[id].wake
    /\ LET w == IF tasks[id].kind = "monitor"
                THEN monitor_silence(World, id, phrase, clock)
                ELSE finish(check_false_interruption(World, clock), id)
       IN  /\ Len(w.tasks) <= conversation.tasks
           /\ Len(w.stats.interruptions) <= conversation.recorded
           /\ Becomes(w)
           /\ tracked' = Observed(w, FALSE, id = tracked.check, FALSE, FALSE)
    /\ UNCHANGED <<clock, said, session, stop_call>>
    /\ EngineFrame

\* The CancelledError of a cancel() reaches the task: a task not yet
\* entered and a task in _check_false_interruption or _say_backchannel end
\* cancelled; _monitor_silence catches the error in its loop and returns.
DeliverCancel(id) ==
    /\ ~Finished(tasks[id])
    /\ tasks[id].must_cancel
    /\ LET caught == tasks[id].kind = "monitor" /\ tasks[id].status = "sleeping"
           w == [World EXCEPT !.tasks[id].status = IF caught THEN "done"
                                                   ELSE "cancelled",
                              !.tasks[id].must_cancel = FALSE]
       IN  Becomes(w) /\ tracked' = Unobserved(w)
    /\ UNCHANGED <<clock, said, session, stop_call>>
    /\ EngineFrame

\* session.say() returns or raises in _say_backchannel, which logs the
\* exception: either way the coroutine returns.
SayFinishes(id) ==
    /\ tasks[id].status = "saying"
    /\ ~tasks[id].must_cancel
    /\ Becomes(finish(World, id))
    /\ tracked' = Unobserved(finish(World, id))
    /\ UNCHANGED <<clock, said, session, stop_call>>
    /\ EngineFrame

\* Time passes.
EngineAdvance(d) ==
    /\ clock + d <= ClockStart + conversation.elapsed
    /\ clock' = clock + d
    /\ UNCHANGED <<engine, machine, stats, tasks, said, session, stop_call, tracked>>
    /\ EngineFrame

\* The steps of the event loop, which asyncio takes when they are due.
EngineLoop ==
    \/ StopResumes
    \/ \E id \in DOMAIN tasks, phrase \in Backchannels(engine.rules.language) :
          RunScheduled(id, phrase)
    \/ \E id \in DOMAIN tasks, phrase \in Backchannels(engine.rules.language) :
          SleepElapses(id, phrase)
    \/ \E id \in DOMAIN tasks : DeliverCancel(id)
    \/ \E id \in DOMAIN tasks : SayFinishes(id)
    \/ \E d \in conversation.steps : EngineAdvance(d)

\* What the callers and the session do.
EngineCalls ==
    \/ StartCalled
    \/ StopCalled
    \/ \E s \in conversation.user_states : UserStateChanged(s)
    \/ \E t \in conversation.transcripts : UserInputTranscribed(t)
    \/ \E s \in conversation.agent_states : AgentStateChanged(s)
    \/ AgentFalseInterruption

EngineNext == EngineLoop \/ EngineCalls

SpecEngine == EngineInit /\ [][EngineNext]_vars

\* asyncio runs every ready callback and every due timer, and time passes;
\* the callers and the session are not obliged to do anything.
FairSpecEngine == SpecEngine /\ WF_vars(EngineLoop)

(***************************************************************************)
(* The BackchannelManager under direct trigger() calls, with the tasks it  *)
(* creates and the passing of time.                                        *)
(***************************************************************************)
BackchannelInit ==
    /\ ExecutorUnused
    /\ ManagerUnused
    /\ clock = ClockStart
    /\ machine_call = NoMachineCall
    /\ conversation = BackchannelConversation
    /\ engine = NewEngine(BackchannelConversation.rules)
    /\ machine = NewMachine(BackchannelConversation.rules)
    /\ stats = NewStats
    /\ tasks = <<>>
    /\ session = NewSession
    /\ stop_call = NoStopCall
    /\ tracked = NoInterruption
    /\ trigger_call = NoTriggerCall

\* A caller awaits backchannel_manager.trigger(), which has no suspension.
TriggerCalled(phrase) ==
    /\ LET r == trigger(World, phrase, clock)
       IN  /\ Len(r.world.tasks) <= conversation.tasks
           /\ Becomes(r.world)
           /\ tracked' = Unobserved(r.world)
           /\ trigger_call' =
                 [time |-> clock, returned |-> {r.triggered},
                  last_before |-> engine.backchannel_manager.last_backchannel_time,
                  pending_before |-> PendingBackchannels(tasks) # {},
                  started |-> Len(r.world.tasks) - Len(tasks)]
    /\ UNCHANGED <<clock, said, session, stop_call>>
    /\ EngineOutside

BackchannelNext ==
    \/ \E phrase \in Backchannels(engine.rules.language) : TriggerCalled(phrase)
    \/ \E id \in DOMAIN tasks, phrase \in Backchannels(engine.rules.language) :
          RunScheduled(id, phrase)
    \/ \E id \in DOMAIN tasks : SayFinishes(id)
    \/ \E d \in conversation.steps : EngineAdvance(d)

SpecBackchannel == BackchannelInit /\ [][BackchannelNext]_vars

(***************************************************************************)
(* The engine's monitoring loop: the callers start and stop the engine,    *)
(* the user speaks and falls silent, the loop ticks.                       *)
(***************************************************************************)
MaxOverCap == 2

\* The user never speaks and nothing is transcribed: every tick records a
\* silence of 0, for longer than the history holds.
TickingConversation ==
    [rules |-> EnglishRules, user_states |-> {}, agent_states |-> {},
     transcripts |-> {}, explicit |-> FALSE, stops |-> FALSE,
     steps |-> {CheckInterval},
     elapsed |-> (SilenceEventsCap + MaxOverCap) * CheckInterval,
     starts |-> 1, tasks |-> 1, recorded |-> 0]

\* The user speaks and falls silent until the silence is a disengagement,
\* and speaks again.
SilentUserConversation ==
    [rules |-> EnglishRules, user_states |-> {"listening", "speaking"},
     agent_states |-> {}, transcripts |-> {}, explicit |-> FALSE, stops |-> TRUE,
     steps |-> {EnglishRules.silence_classification_thresholds.thinking},
     elapsed |-> EnglishRules.silence_classification_thresholds.end_of_speech,
     starts |-> 1, tasks |-> MaxTasks, recorded |-> 0]

MonitoringConversations == {TickingConversation, SilentUserConversation}

MonitoringInit ==
    /\ ExecutorUnused
    /\ ManagerUnused
    /\ clock = ClockStart
    /\ machine_call = NoMachineCall
    /\ \E c \in MonitoringConversations :
          /\ conversation = c
          /\ engine = NewEngine(c.rules)
          /\ machine = NewMachine(c.rules)
    /\ stats = NewStats
    /\ tasks = <<>>
    /\ session = NewSession
    /\ stop_call = NoStopCall
    /\ tracked = NoInterruption
    /\ trigger_call = NoTriggerCall

\* The steps of the event loop.
MonitoringLoop ==
    \/ StopResumes
    \/ \E id \in DOMAIN tasks, phrase \in Backchannels(engine.rules.language) :
          RunScheduled(id, phrase)
    \/ \E id \in DOMAIN tasks, phrase \in Backchannels(engine.rules.language) :
          SleepElapses(id, phrase)
    \/ \E id \in DOMAIN tasks : DeliverCancel(id)
    \/ \E d \in conversation.steps : EngineAdvance(d)

\* What the callers and the session do.
MonitoringCalls ==
    \/ StartCalled
    \/ StopCalled
    \/ \E s \in conversation.user_states : UserStateChanged(s)

MonitoringNext == MonitoringLoop \/ MonitoringCalls

SpecMonitoring == MonitoringInit /\ [][MonitoringNext]_vars

(***************************************************************************)
(* Properties.                                                             *)
(***************************************************************************)

\* Slot c enters execute() for service s in this step.
Begins(c, s) ==
    /\ Ended(calls[c])
    /\ calls'[c] # calls[c]
    /\ calls'[c].service_name = s

\* Slot c leaves execute() with a result in this step.
Returns(c) == ~Ended(calls[c]) /\ calls'[c].pc = "returned"

ShortCircuited(call) ==
    /\ call.pc = "returned"
    /\ call.op_calls = 0
    /\ call.fallback_calls = 0
    /\ call.result # {}
    /\ \A r \in call.result :
          ~r.success /\ r.attempts = 0 /\ r.category = "service_unavailable"

Elapsed(s) == now - circuit_breakers[s].last_failure

\* C1: an execute() entered while the service's breaker is open and no more
\* than the cooldown has passed since last_failure returns in the same step
\* (no suspension, so no delay) a failed result with attempts = 0 and category
\* service_unavailable, has invoked neither the operation nor the fallback,
\* and leaves the breaker's state, failure_count and last_failure as they were.
C1_ShortCircuitWhileOpen ==
    [][\A c \in CallIds, s \in Services :
          (/\ Begins(c, s)
           /\ BreakerState(circuit_breakers, s) = "open"
           /\ Elapsed(s) <= CooldownSeconds)
          => /\ ShortCircuited(calls'[c])
             /\ circuit_breakers'[s].state = circuit_breakers[s].state
             /\ circuit_breakers'[s].failure_count = circuit_breakers[s].failure_count
             /\ circuit_breakers'[s].last_failure = circuit_breakers[s].last_failure]_vars

C1_Witness ==
    \E c \in CallIds :
       /\ ShortCircuited(calls[c])
       /\ BreakerState(circuit_breakers, calls[c].service_name) = "open"
       /\ Elapsed(calls[c].service_name) <= CooldownSeconds

\* C2: counted from a closed breaker, the 5th consecutive execute() on a
\* service that ends without primary success leaves its breaker open, and
\* the 1st to 4th leave it closed.
C2_OpensOnFifthConsecutiveFailure ==
    [][\A s \in Services :
          (streak'[s] # streak[s] /\ streak'[s] > 0 /\ streak_closed'[s])
          => /\ streak'[s] = FailureThreshold
                => BreakerState(circuit_breakers', s) = "open"
             /\ streak'[s] < FailureThreshold
                => BreakerState(circuit_breakers', s) = "closed"]_vars

\* C3 as claimed: an execute() entered on an open breaker 60 seconds or more
\* after last_failure invokes the operation and leaves the breaker half-open;
\* one entered earlier is short-circuited.
C3_HalfOpenAtSixtySeconds ==
    [][\A c \in CallIds, s \in Services :
          (Begins(c, s) /\ BreakerState(circuit_breakers, s) = "open")
          => IF Elapsed(s) >= CooldownSeconds
                THEN /\ calls'[c].pc = "operation"
                     /\ BreakerState(circuit_breakers', s) = "half-open"
                ELSE ShortCircuited(calls'[c])]_vars

\* C3 as amended: an execute() entered on an open breaker more than 60
\* seconds after last_failure invokes the operation and leaves the breaker
\* half-open; one entered 60 seconds after last_failure or earlier is
\* short-circuited and leaves the breaker open.
C3_HalfOpenAfterSixtySeconds ==
    [][\A c \in CallIds, s \in Services :
          (Begins(c, s) /\ BreakerState(circuit_breakers, s) = "open")
          => IF Elapsed(s) > CooldownSeconds
                THEN /\ calls'[c].pc = "operation"
                     /\ BreakerState(circuit_breakers', s) = "half-open"
                ELSE /\ ShortCircuited(calls'[c])
                     /\ BreakerState(circuit_breakers', s) = "open"]_vars

C3_Witness ==
    \E c \in CallIds :
       /\ calls[c].pc = "operation"
       /\ calls[c].op_calls = 1
       /\ BreakerState(circuit_breakers, calls[c].service_name) = "half-open"
       /\ Elapsed(calls[c].service_name) > CooldownSeconds

\* C4: when the operation of an execute() succeeds while the service's
\* breaker is half-open, the breaker is closed and its failure_count is 0
\* afterwards.
C4_SuccessClosesHalfOpen ==
    [][\A c \in CallIds :
          (/\ Returns(c)
           /\ calls[c].pc = "operation"
           /\ \A r \in calls'[c].result : r.success
           /\ BreakerState(circuit_breakers, calls[c].service_name) = "half-open")
          => /\ circuit_breakers'[calls[c].service_name].state = "closed"
             /\ circuit_breakers'[calls[c].service_name].failure_count = 0]_vars

\* A breaker that has recorded a failure and is closed with failure_count 0:
\* only a success while half-open resets the count.
C4_Witness ==
    \E c \in CallIds :
       /\ calls[c].pc = "returned"
       /\ \A r \in calls[c].result : r.success /\ r.value = "operation"
       /\ BreakerState(circuit_breakers, calls[c].service_name) = "closed"
       /\ circuit_breakers[calls[c].service_name].failure_count = 0
       /\ circuit_breakers[calls[c].service_name].last_failure > 0

\* C5: an execute() entered while the service's breaker is half-open and
\* another execute() for the same service is suspended in its operation or
\* its backoff sleep is short-circuited.
C5_SingleTrialWhileHalfOpen ==
    [][\A c \in CallIds, s \in Services :
          (/\ Begins(c, s)
           /\ BreakerState(circuit_breakers, s) = "half-open"
           /\ \E d \in InFlight(s) : d # c)
          => ShortCircuited(calls'[c])]_vars

\* C6: a result carrying the fallback's value has success, escalated and
\* escalation_level = fallback_service; an execute() invokes the fallback at
\* most once, and only in the step in which its operation failed and no
\* retry was due.
C6_FallbackResult ==
    /\ [](\A c \in CallIds :
             /\ calls[c].fallback_calls <= 1
             /\ \A r \in calls[c].result :
                   r.value = "fallback"
                   => r.success /\ r.escalated
                      /\ r.escalation_level = "fallback_service")
    /\ [][\A c \in CallIds :
             calls'[c].fallback_calls > calls[c].fallback_calls
             => /\ calls[c].pc = "operation"
                /\ calls[c].fallback
                /\ calls'[c].pc = "fallback"
                /\ calls'[c].last_category \in ErrorCategory
                /\ ~should_retry(retry_config, calls'[c].last_category,
                                 calls[c].attempt + 1)
                /\ streak'[calls[c].service_name]
                      = streak[calls[c].service_name] + 1]_vars

C6_Witness ==
    \E c \in CallIds :
       /\ calls[c].pc = "returned"
       /\ calls[c].fallback_calls = 1
       /\ \E r \in calls[c].result : r.value = "fallback" /\ r.success

\* C7: no execute() ends by raising; one that has ended has returned exactly
\* one result, and a failed result of a call whose operation was invoked has
\* escalated and an escalation level.
C7_NeverRaises ==
    \A c \in CallIds :
       /\ calls[c].pc # "raised"
       /\ calls[c].pc = "returned" => Cardinality(calls[c].result) = 1
       /\ \A r \in calls[c].result :
             (~r.success /\ calls[c].op_calls > 0)
             => r.escalated /\ r.escalation_level \in EscalationLevel

\* An execute() whose operation and whose fallback both raised has returned.
C7_Witness ==
    \E c \in CallIds :
       /\ calls[c].pc = "returned"
       /\ calls[c].op_calls > 0
       /\ calls[c].fallback_calls = 1
       /\ \E r \in calls[c].result :
             ~r.success /\ r.escalated /\ r.error.type \in {"Exception", "TimeoutError"}

\* C8: an execute() that returns a failed result after its operation was
\* invoked has, without an escalation_handler, the level human_transfer when
\* the last category is quota_exceeded and abort otherwise, and with a
\* handler the level the handler returned.
C8_EscalationLevel ==
    [][\A c \in CallIds :
          (Returns(c) /\ \A r \in calls'[c].result : ~r.success)
          => \A r \in calls'[c].result :
                IF calls[c].escalation_handler
                   THEN /\ calls'[c].handler_return \in EscalationLevel
                        /\ r.escalation_level = calls'[c].handler_return
                   ELSE /\ calls'[c].handler_return = None
                        /\ r.category \in ErrorCategory
                        /\ r.escalation_level =
                              IF r.category = "quota_exceeded"
                                 THEN "human_transfer" ELSE "abort"]_vars

C8_Witness ==
    \E c \in CallIds :
       /\ calls[c].pc = "returned"
       /\ calls[c].handler_return = None
       /\ \E r \in calls[c].result :
             /\ ~r.success
             /\ r.category = "quota_exceeded"
             /\ r.escalation_level = "human_transfer"

\* C9: calculate_delay(0) is 0 and, for every attempt of at least 1, the
\* delay is at most max_delay (the delay is in microseconds, max_delay in
\* milliseconds).
C9_DelayAtMostMaxDelay ==
    probe.pc = "delay_done"
    => /\ probe.attempt = 0 => probe.delay = 0
       /\ probe.attempt >= 1 => probe.delay <= probe.config.max_delay * 1000

\* C10: should_retry is false when attempt >= max_attempts and otherwise
\* tells whether the category is retryable; with the default configuration
\* should_retry(authentication, 1) is false and should_retry(transient, 1) true.
C10_ShouldRetry ==
    probe.pc = "retry_done"
    => /\ probe.attempt >= probe.config.max_attempts => ~probe.retry
       /\ probe.attempt < probe.config.max_attempts
          => (probe.retry <=> probe.category \in probe.config.retryable_categories)
       /\ (probe.config = DefaultRetryConfig /\ probe.attempt = 1)
          => /\ probe.category = "authentication" => ~probe.retry
             /\ probe.category = "transient" => probe.retry

C10_Witness ==
    /\ probe.pc = "retry_done"
    /\ probe.config = DefaultRetryConfig
    /\ probe.attempt = DefaultMaxAttempts
    /\ probe.category = "transient"
    /\ ~probe.retry

Range(seq) == {seq[i] : i \in DOMAIN seq}

\* C11: on a fresh manager, the sixth record_failure() call of six that
\* name no critical service returns graceful_degradation and leaves
\* current_mode at minimal.
C11_SixthFailureGivesMinimal ==
    (/\ escalation.calls = MinimalThreshold
     /\ \A s \in CriticalServices : ServiceFailures(manager, s) = 0)
    => /\ escalation.returned = "graceful_degradation"
       /\ manager.current_mode = "minimal"

C13_TransitionIsAnnounced ==
    \A mode \in DegradationMode \ {FULL_FUNCTIONALITY} :
        (manager.current_mode = mode) ~> (DegradationNotice(mode) \in Range(said))

\* The last call was update(has_speech=False).
UpdatedInSilence == machine_call.op = "update" /\ ~machine_call.has_speech

Thresholds == machine.rules.silence_classification_thresholds

\* C14: update(has_speech=False) classifies the silence duration d by the
\* first threshold it is strictly below: normal_pause below the
\* normal_pause threshold, thinking from there to below the thinking
\* threshold, end_of_speech from there to below the end_of_speech threshold,
\* disengagement otherwise; d = 0.25 s with the English thresholds is
\* thinking.
C14_ClassifiedByFirstThresholdAbove ==
    UpdatedInSilence
    => LET d == machine.silence_duration
           state == machine_call.result.state
       IN  /\ machine.state = state
           /\ state = "normal_pause" <=> d < Thresholds.normal_pause
           /\ state = "thinking"
              <=> Thresholds.normal_pause <= d /\ d < Thresholds.thinking
           /\ state = "end_of_speech"
              <=> Thresholds.thinking <= d /\ d < Thresholds.end_of_speech
           /\ state = "disengagement" <=> Thresholds.end_of_speech <= d
           /\ (machine.rules = EnglishRules /\ d = 250) => state = "thinking"

\* update(False) 0.25 s after speech, with the English rules.
C14_Witness ==
    /\ UpdatedInSilence
    /\ machine.rules = EnglishRules
    /\ machine.last_speech_time = clock - 250
    /\ machine.silence_duration = 250
    /\ machine_call.result.state = "thinking"

\* C15 as stated: update(has_speech=False) with a silence duration exactly
\* equal to the end_of_speech threshold gives the state end_of_speech.
C15_EndOfSpeechAtThreshold ==
    (UpdatedInSilence /\ machine.silence_duration = Thresholds.end_of_speech)
    => machine_call.result.state = "end_of_speech"

\* C15: update(has_speech=False) with a silence duration exactly equal to
\* the end_of_speech threshold gives the state disengagement.
C15_DisengagementAtThreshold ==
    (UpdatedInSilence /\ machine.silence_duration = Thresholds.end_of_speech)
    => /\ machine_call.result.state = "disengagement"
       /\ machine.state = "disengagement"

\* update(False) exactly the end_of_speech threshold after speech.
C15_Witness ==
    /\ UpdatedInSilence
    /\ Truthy(machine.last_speech_time)
    /\ clock - machine.last_speech_time = Thresholds.end_of_speech
    /\ machine.silence_duration = Thresholds.end_of_speech

\* C16: for an interruption (an agent speaking -> listening transition)
\* during which no transcription arrives, exactly one false_interruption
\* event is recorded: never more than one, and one once the deferred check
\* has fired, the agent has resumed or the session has reported the false
\* interruption, in whatever order these happen.
C16_ExactlyOneFalseInterruption ==
    (tracked.n > 0 /\ ~tracked.transcribed)
    => /\ tracked.false_recorded <= 1
       /\ (tracked.check_fired \/ tracked.resumed \/ tracked.explicit)
          => tracked.false_recorded = 1

\* C17: once a non-empty transcription has arrived for an interruption
\* whose deferred check has not fired yet, one real_interruption event is
\* eventually recorded for it and the interruption tracking is cleared.
C17_RealInterruptionRecorded ==
    (tracked.n > 0 /\ tracked.transcribed /\ ~tracked.check_fired)
    ~> (tracked.real_recorded = 1 /\ engine.interruption_start_time = NoTime)

\* C18: at the step in which stop() returns, every monitoring loop, every
\* deferred check and every backchannel utterance the engine has created
\* has finished, by returning or by cancellation.
C18_StopLeavesNoTask ==
    [][(stop_call.pc # "returned" /\ stop_call'.pc = "returned")
       => \A id \in DOMAIN tasks' :
             tasks'[id].kind \in {"monitor", "check", "backchannel"}
             => Finished(tasks'[id])]_vars

\* C19: the interruption history never holds more than 50 events.
C19_InterruptionsAtMostFifty ==
    Len(stats.interruptions) <= InterruptionsCap

\* C20: a closed breaker opens only on a fifth consecutive failure: when a
\* service's breaker goes from closed to open, the service's last five
\* execute() calls or more have all failed, none of them separated from the
\* next by a successful call.
C20_OpensOnlyAfterFiveInARow ==
    [][\A s \in Services :
          (/\ BreakerState(circuit_breakers, s) \in {"absent", "closed"}
           /\ BreakerState(circuit_breakers', s) = "open")
          => streak'[s] >= FailureThreshold]_vars

\* Slot c's execute() gives up on its operation in this step: the loop has
\* ended without a success and the failure is recorded.
FailsFinally(c) ==
    /\ calls[c].pc = "operation"
    /\ \/ calls'[c].pc = "fallback"
       \/ calls'[c].pc = "returned" /\ \A r \in calls'[c].result : ~r.success

\* C21: when an execute() gives up on its operation while the service's
\* breaker is half-open, the breaker is open in the same step and its
\* last_failure is the time of that failure; and an execute() entered on an
\* open breaker whose last_failure is no more than the cooldown ago is
\* short-circuited and leaves the breaker open.
C21_FailedTrialReopens ==
    [][/\ \A c \in CallIds :
             (/\ FailsFinally(c)
              /\ BreakerState(circuit_breakers, calls[c].service_name) = "half-open")
             => /\ circuit_breakers'[calls[c].service_name].state = "open"
                /\ circuit_breakers'[calls[c].service_name].last_failure = now
       /\ \A c \in CallIds, s \in Services :
             (/\ Begins(c, s)
              /\ BreakerState(circuit_breakers, s) = "open"
              /\ now - circuit_breakers[s].last_failure <= CooldownSeconds)
             => /\ ShortCircuited(calls'[c])
                /\ BreakerState(circuit_breakers', s) = "open"]_vars

\* With one caller at a time, an open breaker with more failures than the
\* threshold has recorded a failure while half-open; the call after it,
\* made at the time of that failure, was short-circuited.
C21_Witness ==
    /\ scenario.slots = {1}
    /\ ShortCircuited(calls[1])
    /\ BreakerState(circuit_breakers, calls[1].service_name) = "open"
    /\ circuit_breakers[calls[1].service_name].failure_count > FailureThreshold
    /\ circuit_breakers[calls[1].service_name].last_failure = now
    /\ now > StartTime + CooldownSeconds

\* C22: an execute() call invokes its operation at most max_attempts times;
\* it invokes the operation again only after a failure of a retryable
\* category; and it sleeps for a backoff only after such a failure that was
\* not the failure of its last attempt.
C22_AttemptsBounded ==
    /\ [](\A c \in CallIds :
             /\ calls[c].op_calls <= retry_config.max_attempts
             /\ calls[c].pc = "sleep"
                => /\ calls[c].op_calls < retry_config.max_attempts
                   /\ calls[c].last_category \in retry_config.retryable_categories)
    /\ [][\A c \in CallIds :
             (~Ended(calls[c]) /\ calls'[c].op_calls > calls[c].op_calls)
             => /\ calls'[c].op_calls = calls[c].op_calls + 1
                /\ calls'[c].last_category \in retry_config.retryable_categories]_vars

\* A call that stopped after one attempt on a failure that is not retryable,
\* without sleeping (the clock has not moved), although attempts were left.
C22_Witness ==
    \E c \in CallIds :
       /\ calls[c].pc = "returned"
       /\ calls[c].op_calls = 1
       /\ retry_config.max_attempts > 1
       /\ \A r \in calls[c].result :
             ~r.success /\ r.category \notin retry_config.retryable_categories
                        /\ r.category \in ErrorCategory

\* The failures recorded for the text-to-speech services.
TtsFailures ==
    ServiceFailures(manager, "elevenlabs_tts") + ServiceFailures(manager, "cartesia_tts")

\* C23: after a record_failure() call that did not return human_transfer,
\* under a policy with degradation enabled, current_mode is reduced_llm if
\* openai_llm has 2 failures or more, else reduced_tts if the TTS services
\* have 2 or more together, else reduced_stt if deepgram_stt has 2 or more,
\* else it follows the total: the mode before the call below 4 failures,
\* text_only or minimal from 4 on.  The call returned graceful_degradation
\* if current_mode differs from the mode before the call and
\* retry_with_backoff if it does not.
C23_TargetModeByPrecedence ==
    (/\ escalation.calls > 0
     /\ escalation.returned # "human_transfer"
     /\ manager.policy.enable_graceful_degradation)
    => /\ IF ServiceFailures(manager, "openai_llm") >= 2
             THEN manager.current_mode = "reduced_llm"
          ELSE IF TtsFailures >= 2
             THEN manager.current_mode = "reduced_tts"
          ELSE IF ServiceFailures(manager, "deepgram_stt") >= 2
             THEN manager.current_mode = "reduced_stt"
          ELSE IF manager.failure_count < 4
             THEN manager.current_mode = escalation.previous_mode
          ELSE manager.current_mode \in {"text_only", "minimal"}
       /\ escalation.returned =
             IF manager.current_mode # escalation.previous_mode
                THEN "graceful_degradation" ELSE "retry_with_backoff"

\* The TTS rule wins over the STT rule: with 2 failures of each, the call
\* moved the manager from reduced_stt to reduced_tts.
C23_Witness ==
    /\ escalation.calls > 0
    /\ manager.policy.enable_graceful_degradation
    /\ escalation.returned = "graceful_degradation"
    /\ ServiceFailures(manager, "openai_llm") < 2
    /\ TtsFailures >= 2
    /\ ServiceFailures(manager, "deepgram_stt") >= 2
    /\ escalation.previous_mode = "reduced_stt"
    /\ manager.current_mode = "reduced_tts"

\* The position of a mode on the policy's degradation_sequence.
Position(sequence, mode) ==
    CHOOSE i \in DOMAIN sequence : sequence[i] = mode

\* C24: no record_failure() call moves current_mode to an earlier position
\* of the ladder full, reduced_tts, reduced_llm, reduced_stt, text_only,
\* minimal.
C24_NeverBackUpTheLadder ==
    [][Position(manager.policy.degradation_sequence, manager'.current_mode)
       >= Position(manager.policy.degradation_sequence, manager.current_mode)]_vars

\* What session.say() has been invoked with since the handle_escalation()
\* call under way, or last made, was entered.
SaidByHandling == SubSeq(said, handling.said_before + 1, Len(said))

\* C25: handle_escalation() never raises.  For a failed result that
\* record_failure() decides to transfer, it says the transfer announcement;
\* it says the apology, once, only after that say() raised; and it returns
\* True whether or not the apology's say() raised.  For a successful result
\* it returns True at once and leaves the manager as it was.
C25_HumanTransferNeverRaises ==
    /\ [](/\ handling.pc # "raised"
          /\ handling.pc = "say_transfer" => SaidByHandling = <<TransferMessage>>
          /\ handling.pc = "say_apology"
             => /\ handling.transfer_failed
                /\ SaidByHandling = <<TransferMessage, ApologyMessage>>
          /\ (handling.pc = "returned" /\ handling.level = "human_transfer")
             => /\ handling.returned = {TRUE}
                /\ SaidByHandling =
                      IF handling.transfer_failed
                      THEN <<TransferMessage, ApologyMessage>>
                      ELSE <<TransferMessage>>)
    /\ [][(handling'.calls = handling.calls + 1 /\ handling'.success)
          => /\ handling'.pc = "returned"
             /\ handling'.returned = {TRUE}
             /\ manager' = manager
             /\ said' = said]_vars

\* A transfer in which both say() calls raised, and handle_escalation()
\* returned True.
C25_Witness ==
    /\ handling.pc = "returned"
    /\ ~handling.success
    /\ handling.level = "human_transfer"
    /\ handling.transfer_failed
    /\ handling.apology_failed
    /\ handling.returned = {TRUE}
    /\ manager.failure_count > 0

\* A cap on the history of partial results, below the number of
\* handle_partial_failure() calls the callers make.
PartialResultsCap == MaxPartialFailures - 1

\* C26: the history of partial results never grows beyond the cap.
C26_PartialResultsBounded ==
    Len(uncertainty.partial_results) <= PartialResultsCap

\* What session.say() has been invoked with since the UncertaintyHandler
\* call under way, or last made, was entered.
SaidByUncertainCall == SubSeq(said, uncertain_call.said_before + 1, Len(said))

\* C27: every handle_timeout() call adds one to timeout_count; the call that
\* brings the count to 3 invokes session.say() with the notice and the calls
\* that bring it to 1 and to 2 do not; and a handle_timeout() call returns a
\* failed result of category timeout, also when the say() raised.
C27_NoticeOnThirdTimeout ==
    /\ [](uncertain_call.op = "handle_timeout"
          => /\ uncertainty.timeout_count = 3
                => SaidByUncertainCall = <<TimeoutNotice>>
             /\ uncertainty.timeout_count \in {1, 2}
                => SaidByUncertainCall = <<>>
             /\ uncertain_call.pc = "returned"
                => /\ uncertain_call.result # {}
                   /\ \A r \in uncertain_call.result :
                         ~r.success /\ r.category = "timeout")
    /\ [][(/\ uncertain_call.pc # "say"
           /\ uncertain_call' # uncertain_call
           /\ uncertain_call'.op = "handle_timeout")
          => uncertainty'.timeout_count = uncertainty.timeout_count + 1]_vars

\* The third timeout, whose notice could not be delivered, returned its
\* failed result.
C27_Witness ==
    /\ uncertain_call.op = "handle_timeout"
    /\ uncertain_call.pc = "returned"
    /\ uncertain_call.notice_failed
    /\ uncertainty.timeout_count = 3
    /\ SaidByUncertainCall = <<TimeoutNotice>>
    /\ \A r \in uncertain_call.result : ~r.success /\ r.category = "timeout"

\* C28: a trigger() call made less than min_backchannel_interval after the
\* last successful one, or while a backchannel task is pending, returns
\* False and creates no task; a call that returns True was made at least
\* the interval after the last successful one, created one task, and
\* returned in the step that created it, before the task has said
\* anything; and no more than one backchannel task is pending at a time.
C28_TriggerRefusesWhilePending ==
    /\ [](/\ Cardinality(PendingBackchannels(tasks)) <= 1
          /\ trigger_call.returned # {}
             => /\ (\/ trigger_call.time - trigger_call.last_before
                          < MinBackchannelInterval
                    \/ trigger_call.pending_before)
                   => trigger_call.returned = {FALSE} /\ trigger_call.started = 0
                /\ trigger_call.returned = {TRUE}
                   => /\ trigger_call.started = 1
                      /\ trigger_call.time - trigger_call.last_before
                            >= MinBackchannelInterval)
    /\ [][(trigger_call' # trigger_call /\ trigger_call'.returned = {TRUE})
          => /\ tasks'[Len(tasks')].kind = "backchannel"
             /\ tasks'[Len(tasks')].status = "scheduled"
             /\ said' = said]_vars

\* A trigger() call made a full interval after the last successful one was
\* refused because that one's utterance was still being said.
C28_Witness ==
    /\ trigger_call.returned = {FALSE}
    /\ trigger_call.pending_before
    /\ trigger_call.last_before > 0
    /\ trigger_call.time - trigger_call.last_before >= MinBackchannelInterval
    /\ \E id \in PendingBackchannels(tasks) : tasks[id].status = "saying"

\* C29: the first agent_false_interruption event of a tracked interruption
\* that is still open, on a started engine, adds one false_interruption
\* event to the statistics, clears the interruption tracking and leaves the
\* interruption's deferred check cancelled or finished, whether or not a
\* transcription was received.
C29_ExplicitEventRecordsOne ==
    [][(/\ session.handlers > 0
        /\ tracked.n > 0
        /\ engine.interruption_start_time # NoTime
        /\ ~tracked.explicit
        /\ tracked'.explicit)
       => /\ stats'.false_interruptions = stats.false_interruptions + 1
          /\ Len(stats'.interruptions) = Len(stats.interruptions) + 1
          /\ stats'.interruptions[Len(stats'.interruptions)].type = "false_interruption"
          /\ engine'.interruption_start_time = NoTime
          /\ ~engine'.interruption_transcription_received
          /\ engine'.false_interruption_check_task = NoTask
          /\ tracked.check # NoTask
             => \/ Finished(tasks'[tracked.check])
                \/ tasks'[tracked.check].must_cancel]_vars


(***************************************************************************)
(* C30: classify returns the category of the first matching rule in the    *)
(* fixed order: network keywords give network; the timeout keywords        *)
(* 'timeout' and 'timed out' give timeout; rate-limit or quota keywords    *)
(* give rate_limit, or quota_exceeded when a quota keyword is present;     *)
(* authentication keywords give authentication; unavailable or maintenance *)
(* keywords give service_unavailable; malformed or invalid keywords give   *)
(* invalid_input; then the status codes of the named provider (429 gives   *)
(* rate_limit, 401/403 authentication, 5xx service_unavailable); and       *)
(* transient when nothing matches.                                         *)
(***************************************************************************)
FirstMatchingRule(msg, service_name) ==
    IF ContainsAny(msg, {"connection", "network", "unreachable", "dns"})
        THEN "network"
    ELSE IF ContainsAny(msg, {"timeout", "timed out"})
        THEN "timeout"
    ELSE IF ContainsAny(msg, {"rate limit", "too many requests", "429", "quota"})
        THEN (IF Contains(msg, "quota") THEN "quota_exceeded" ELSE "rate_limit")
    ELSE IF ContainsAny(msg, {"auth", "unauthorized", "401", "403", "invalid key", "api key"})
        THEN "authentication"
    ELSE IF ContainsAny(msg, {"503", "service unavailable", "unavailable", "down", "maintenance"})
        THEN "service_unavailable"
    ELSE IF ContainsAny(msg, {"invalid", "bad request", "400", "malformed", "validation"})
        THEN "invalid_input"
    ELSE IF IsOpenAI(service_name) /\ ContainsAny(msg, {"500", "502", "503"})
        THEN "service_unavailable"
    ELSE "transient"

C30_FirstMatchingRule ==
    probe.pc = "classify_done"
        => probe.category = FirstMatchingRule(probe.msg, probe.service_name)


(***************************************************************************)
(* C40: the policy of a manager never changes; once record_failure() has   *)
(* returned human_transfer, every later record_failure() on the same       *)
(* manager returns human_transfer too and leaves current_mode as it was;   *)
(* and once current_mode has left full functionality it never returns to   *)
(* it.                                                                     *)
(***************************************************************************)
C40_HumanTransferIsSticky ==
    /\ [][manager'.policy = manager.policy]_vars
    /\ [][(/\ escalation.returned = "human_transfer"
           /\ escalation'.calls = escalation.calls + 1)
          => /\ escalation'.returned = "human_transfer"
             /\ manager'.current_mode = manager.current_mode]_vars
    /\ [][manager.current_mode # FULL_FUNCTIONALITY
          => manager'.current_mode # FULL_FUNCTIONALITY]_vars

\* A second human_transfer in a row, the total already above the
\* threshold, on a manager that had degraded before.
C40_Witness ==
    /\ escalation.returned = "human_transfer"
    /\ manager.failure_count > manager.policy.human_transfer_threshold
    /\ manager.current_mode # FULL_FUNCTIONALITY
    /\ \A s \in CriticalServices : ServiceFailures(manager, s) < CriticalFailureThreshold


(***************************************************************************)
(* C36: in every execute() result for which the fallback was not used,     *)
(* the attempts field is the number of times the operation was invoked     *)
(* during that call: 0 when short-circuited, k on a success at the k-th    *)
(* attempt, and the number of attempts made when the call failed, also     *)
(* when the loop stopped early on a category that is not retried.          *)
(***************************************************************************)
C36_AttemptsIsInvocations ==
    \A c \in CallIds :
        calls[c].pc = "returned"
            => \A r \in calls[c].result :
                   r.escalation_level # "fallback_service"
                       => r.attempts = calls[c].op_calls


(***************************************************************************)
(* C37: in every reachable state of a service's breaker, the state is open *)
(* or half-open only if failure_count >= 5 and closed only if              *)
(* failure_count <= 4; and a breaker becomes half-open only from open.     *)
(***************************************************************************)
C37_BreakerStateMatchesCount ==
    /\ [](\A s \in DOMAIN circuit_breakers :
            /\ circuit_breakers[s].state \in {"closed", "open", "half-open"}
            /\ circuit_breakers[s].state \in {"open", "half-open"}
                  => circuit_breakers[s].failure_count >= FailureThreshold
            /\ circuit_breakers[s].state = "closed"
                  => circuit_breakers[s].failure_count <= FailureThreshold - 1)
    /\ [][\A s \in DOMAIN circuit_breakers' :
            (/\ circuit_breakers'[s].state = "half-open"
             /\ BreakerState(circuit_breakers, s) # "half-open")
                => BreakerState(circuit_breakers, s) = "open"]_vars

\* A breaker that opened on its fifth failure and, the cooldown over, was
\* moved to half-open by the next execute().
C37_Witness ==
    \E s \in DOMAIN circuit_breakers :
        /\ circuit_breakers[s].state = "half-open"
        /\ circuit_breakers[s].failure_count = FailureThreshold
        /\ now - circuit_breakers[s].last_failure > CooldownSeconds


(***************************************************************************)
(* C38: a service's failure_count increases by exactly one per execute()   *)
(* call whose primary operation ends without success, however many         *)
(* attempts the call made and also when a fallback is then awaited (and    *)
(* succeeds); nothing else increases it.  So after 5 such calls in a row   *)
(* the next execute() within the cooldown is short-circuited: neither the  *)
(* operation nor the fallback is invoked.                                  *)
(***************************************************************************)
PrimaryEndsWithoutSuccess(c) ==
    /\ calls[c].pc = "operation"
    /\ \/ calls'[c].pc = "fallback"
       \/ calls'[c].pc = "returned" /\ \A r \in calls'[c].result : ~r.success

C38_OneFailurePerFailedCall ==
    /\ [][\A c \in CallIds :
            PrimaryEndsWithoutSuccess(c)
                => FailureCount(circuit_breakers', calls[c].service_name)
                     = FailureCount(circuit_breakers, calls[c].service_name) + 1]_vars
    /\ [][\A s \in Services :
            FailureCount(circuit_breakers', s) > FailureCount(circuit_breakers, s)
                => \E c \in CallIds : /\ PrimaryEndsWithoutSuccess(c)
                                      /\ calls[c].service_name = s]_vars
    /\ [][\A c \in CallIds :
            (/\ Ended(calls[c])
             /\ calls'[c] # calls[c]
             /\ streak[calls'[c].service_name] >= FailureThreshold
             /\ calls'[c].service_name \in DOMAIN circuit_breakers
             /\ ~CooldownElapsed(circuit_breakers[calls'[c].service_name], now))
                => /\ calls'[c].result = {ShortCircuitResult}
                   /\ calls'[c].op_calls = 0
                   /\ calls'[c].fallback_calls = 0]_vars

\* The fifth failed call in a row made several attempts and returned its
\* fallback's value; the breaker counts 5 failures and is open.
C38_Witness ==
    \E c \in CallIds :
        /\ calls[c].pc = "returned"
        /\ calls[c].op_calls > 1
        /\ calls[c].fallback_calls = 1
        /\ \E r \in calls[c].result : r.escalation_level = "fallback_service"
        /\ streak[calls[c].service_name] = FailureThreshold
        /\ FailureCount(circuit_breakers, calls[c].service_name) = FailureThreshold
        /\ BreakerState(circuit_breakers, calls[c].service_name) = "open"


(***************************************************************************)
(* C32: breaker state is kept per service name and per executor instance:  *)
(* an execute() for a service on an executor changes no breaker of another *)
(* service of that executor and no breaker of another executor.            *)
(***************************************************************************)
BreakerOf(inst, e, s) ==
    IF s \in DOMAIN BreakersOf(inst, e) THEN {BreakersOf(inst, e)[s]} ELSE {}

C32_BreakersAreSeparate ==
    [][instances'.last.n = instances.last.n + 1
       => \A e \in ExecutorIds, s \in Services :
             (e # instances'.last.executor \/ s # instances'.last.service_name)
                => BreakerOf(instances', e, s) = BreakerOf(instances, e, s)]_vars

\* The fifth failure of a service on one executor opens its breaker while
\* another service of that executor and the same service on the other
\* executor have breakers with failures of their own, still closed.
C32_Witness ==
    \E e \in ExecutorIds, f \in ExecutorIds, s \in Services, t \in Services :
        /\ e # f /\ s # t
        /\ instances.last.executor = e /\ instances.last.service_name = s
        /\ BreakerOf(instances, e, s) # {}
        /\ BreakersOf(instances, e)[s].state = "open"
        /\ BreakerOf(instances, e, t) # {}
        /\ BreakersOf(instances, e)[t].state = "closed"
        /\ BreakersOf(instances, e)[t].failure_count = 1
        /\ BreakerOf(instances, f, s) # {}
        /\ BreakersOf(instances, f)[s].state = "closed"
        /\ BreakersOf(instances, f)[s].failure_count = 1


(***************************************************************************)
(* C34: with one set of handlers registered, at most one deferred check is *)
(* pending at any time; and a false_interruption recorded by a deferred    *)
(* check is recorded by the check that was scheduled for the interruption  *)
(* being tracked, which began at least the full timeout earlier.           *)
(***************************************************************************)
\* The deferred checks that will run their body unless cancelled.
PendingChecks(task_seq) ==
    {id \in DOMAIN task_seq : /\ task_seq[id].kind = "check"
                              /\ ~Finished(task_seq[id])
                              /\ ~task_seq[id].must_cancel}

\* The deferred check id runs its body in this step and records an event.
CheckRecords(id) ==
    /\ id \in PendingChecks(tasks)
    /\ tasks[id].status = "sleeping"
    /\ Finished(tasks'[id])
    /\ stats'.false_interruptions > stats.false_interruptions

C34_CheckBelongsToItsInterruption ==
    /\ [](session.handlers <= 1 => Cardinality(PendingChecks(tasks)) <= 1)
    /\ [][\A id \in DOMAIN tasks :
            (session.handlers <= 1 /\ CheckRecords(id))
                => /\ id = tracked.check
                   /\ clock - engine.interruption_start_time
                         >= FalseInterruptionTimeout]_vars


(***************************************************************************)
(* C39: across any sequence of start() and stop() calls each session event *)
(* is processed by at most one set of engine handlers: at most one set is  *)
(* registered on the session, also after stop() followed by start();       *)
(* while the engine is monitoring, a start() registers nothing and creates *)
(* no monitoring task; and one session event adds at most one event to     *)
(* the interruption history.                                               *)
(***************************************************************************)
MonitorTasks(task_seq) == {id \in DOMAIN task_seq : task_seq[id].kind = "monitor"}

C39_OneSetOfHandlers ==
    /\ [](session.handlers <= 1)
    /\ [][engine.is_monitoring
            => /\ session'.handlers = session.handlers
               /\ MonitorTasks(tasks') = MonitorTasks(tasks)]_vars
    /\ [][Len(stats'.interruptions) <= Len(stats.interruptions) + 1]_vars


(***************************************************************************)
(* C35: with the english and the japanese timing rules update() never      *)
(* returns should_respond = TRUE, whatever the silence duration: the       *)
(* response window [min_response_delay, max_response_delay] lies below the *)
(* end_of_speech bucket, the only one in which the window is tested.  With *)
(* any rules, should_respond is returned only in the end_of_speech bucket  *)
(* with the duration inside the window, and never together with            *)
(* should_backchannel.                                                     *)
(***************************************************************************)
CanonicalRules == {EnglishRules, JapaneseRules}

C35_NeverRespondsWithCanonicalRules ==
    /\ \A rules \in CanonicalRules :
          rules.max_response_delay < rules.silence_classification_thresholds.thinking
    /\ machine_call.op = "update"
          => LET r == machine_call.result
             IN  /\ machine.rules \in CanonicalRules => ~r.should_respond
                 /\ r.should_respond
                       => /\ r.state = "end_of_speech"
                          /\ machine.rules.min_response_delay <= machine.silence_duration
                          /\ machine.silence_duration <= machine.rules.max_response_delay
                 /\ ~(r.should_respond /\ r.should_backchannel)

\* update() with the japanese rules on a silence inside the response
\* window, which falls in the thinking bucket.
C35_Witness ==
    /\ machine_call.op = "update"
    /\ machine.rules = JapaneseRules
    /\ machine.silence_duration >= machine.rules.min_response_delay
    /\ machine.silence_duration <= machine.rules.max_response_delay
    /\ machine_call.result.state = "thinking"
    /\ ~machine_call.result.should_respond


\* C33: whenever the engine has been started and not stopped and the user
\* stops speaking (user_state_changed to listening), the monitoring loop
\* is still running, also after an earlier silence was classified as
\* disengagement.
C33_LoopRunsWhenUserStopsSpeaking ==
    [][(/\ engine.is_monitoring
        /\ session.handlers > 0
        /\ session.user_state = "speaking"
        /\ session'.user_state = "listening")
       => /\ engine'.monitoring_task # NoTask
          /\ ~Finished(tasks'[engine'.monitoring_task])]_vars

\* The step is a tick of monitoring task id: the loop of _monitor_silence
\* went round once, with no stop() called before or during it.
MonitorTicks(id) ==
    /\ engine.is_monitoring /\ engine'.is_monitoring
    /\ ~Finished(tasks[id]) /\ ~tasks[id].must_cancel
    /\ tasks'[id] # tasks[id]

\* What a tick of task id does: the state it classifies, the silence
\* event it records, and whether the loop goes on.
TickOutcome(id) ==
    LET has_speech == engine.last_user_state = "speaking"
        state == machine'.state
        before == stats.silence_events
        event == [classification |-> state, duration |-> machine'.silence_duration]
    IN  /\ (state = "speaking") <=> has_speech
        /\ stats'.silence_events =
              IF state = "speaking" THEN before
              ELSE IF Len(before) < SilenceEventsCap THEN Append(before, event)
              ELSE Append(Tail(before), event)
        /\ IF state = "disengagement" THEN Finished(tasks'[id])
           ELSE /\ tasks'[id].status = "sleeping"
                /\ tasks'[id].wake = clock + CheckInterval

\* C31: after start() the monitoring loop keeps ticking while stop() has
\* not been called (a tick that does not classify a disengagement leaves
\* the next one due 100 ms later, and the loop ends only on a stop() or on
\* the first tick that classifies a disengagement); a tick classifies
\* with has_speech taken from the last observed user state and records a
\* silence event only when the state is not speaking; the history of
\* silence events never exceeds 100 entries.
C31_LoopTicksUntilDisengagement ==
    /\ [](Len(stats.silence_events) <= SilenceEventsCap)
    /\ [][\A id \in MonitorTasks(tasks) :
            /\ MonitorTicks(id) => TickOutcome(id)
            /\ (~Finished(tasks[id]) /\ Finished(tasks'[id]))
                  => \/ tasks[id].must_cancel
                     \/ MonitorTicks(id) /\ machine'.state = "disengagement"]_vars

C31_Witness ==
    /\ engine.is_monitoring
    /\ Len(stats.silence_events) = SilenceEventsCap
    /\ \E id \in MonitorTasks(tasks) :
          /\ tasks[id].status = "sleeping"
          /\ tasks[id].wake > ClockStart + SilenceEventsCap * CheckInterval

====
